---- MODULE Spec2Model ----
(***************************************************************************)
(* Dependency auto-resolution of Portable_Python_IED.py: the import        *)
(* extractor, the package-name resolver, the installed-module prober, the  *)
(* install job (InstallPackageThread) and the orchestrator                 *)
(* (check_and_install_missing_packages, driven by run_code / load_code).   *)
(*                                                                         *)
(* A source text is modelled by what ast.parse makes of it: either a       *)
(* SyntaxError or a module body, a sequence of statement nodes.  A dotted  *)
(* name is the sequence of its tokens, <<"a", ".", "b">> for a.b.          *)
(* A line of text shown on a panel is the sequence of the parts of the     *)
(* f-string that produced it; a panel is the bag of the lines it shows.    *)
(* The queued signal deliveries that await the UI thread are kept per      *)
(* sending job: Qt delivers the queued calls of one sender in the order    *)
(* they were posted, and the jobs are independent threads.                 *)
(***************************************************************************)
EXTENDS Integers, Sequences, FiniteSets, Bags, TLC

VARIABLES
    IMPORT_TO_PYPI,        \* the module-level dict (lines 37-41)
    code,                  \* the source text handed to the extractor
    imported_packages,     \* what extract_imported_packages returned
    lookups,               \* the resolver calls made so far: <<name, result>>
    output_panel,          \* MainWindow.output_panel, the lines it shows
    package_output_panel,  \* MainWindow.package_output_panel
    install_threads,       \* MainWindow.install_threads, a list of job ids
    task,                  \* the threading.Thread tasks of run_code/load_code
    job,                   \* the InstallPackageThread objects
    ui_queue,              \* per job, its signal deliveries awaiting the UI thread
    progress_bar,          \* visibility of MainWindow.progress_bar
    error_log,             \* lines appended to error_log.txt
    importable,            \* what importing each module does in this interpreter
    install_thread,        \* the InstallThread objects install_package created
    install_queue,         \* per InstallThread, its signal deliveries awaiting the UI thread
    install_output,        \* what install_package and its slots appended, in order
    uncaught,              \* the exceptions that left a handler or a thread uncaught
    debugger,              \* the debug_task threads of run_debugger and their pdb processes
    active_process,        \* MainWindow.active_process: a debugger's number, 0 for None
    active_thread,         \* MainWindow.active_thread: a debugger's number, 0 for None
    stops,                 \* the calls of stop_script made so far
    usb_drive,             \* MainWindow.usb_drive: <<>> for None, else the folder chosen
    backup,                \* the backup_configuration call in progress and what it did
    auto_saves,            \* the auto-save files written so far
    document,              \* the editor's QTextDocument: a sequence of UTF-16 code units
    current_search_pos,    \* CodeEditor.current_search_pos
    cursor,                \* the editor's text cursor: anchor and position
    last_op,               \* the last search or replace operation and what it returned
    replacing,             \* the replace_all call in progress
    command_in_progress,   \* MainWindow.command_in_progress
    debug_console,         \* the text in the debug console, <<>> when it is empty
    typed,                 \* the commands the user has typed into the debug console
    sender,                \* the send_input thread of each debug session
    written,               \* what has been written to the debuggers' standard inputs
    closing,               \* the closeEvent calls made so far
    startup,               \* MainWindow.__init__ and select_python_folder
    pipes                  \* an install job and its pip process at the level of their pipes

dep_vars == <<IMPORT_TO_PYPI, code, imported_packages, lookups, output_panel,
              package_output_panel, install_threads, task, job, ui_queue,
              progress_bar, error_log, importable>>

install_vars == <<install_thread, install_queue, install_output>>

debug_vars == <<debugger, active_process, active_thread, stops>>

file_vars == <<usb_drive, backup, auto_saves>>

editor_vars == <<document, current_search_pos, cursor, last_op, replacing>>

console_vars == <<command_in_progress, debug_console, typed, sender, written>>

late_vars == <<closing, startup, pipes>>

\* the variables outside the dependency auto-resolution
rest_vars == <<install_vars, debug_vars, uncaught, file_vars, editor_vars,
               console_vars, late_vars>>

\* what install_package and InstallThread never touch
beyond_install == <<dep_vars, debug_vars, file_vars, editor_vars, console_vars, late_vars>>

\* what run_debugger and stop_script never touch
beyond_debug == <<install_vars, uncaught, file_vars, editor_vars, console_vars, late_vars>>

vars == <<dep_vars, rest_vars>>

orch_vars == <<install_threads, task, job, ui_queue, progress_bar, error_log,
               package_output_panel, importable>>

(***************************************************************************)
(* Bounds                                                                  *)
(***************************************************************************)
MaxStmts == 2      \* statements in the module body of an extractor input
MaxLookups == 3    \* resolver calls in one behaviour
MaxTasks == 2      \* Run Code / Load Script actions in one behaviour
MaxJobs == 2       \* InstallPackageThread objects in one behaviour
MaxLines == 1      \* lines a pip process writes to its standard output
MaxInstalls == 1   \* install_package calls in one behaviour
MaxWrites == 2     \* lines the pip process of install_package writes
MaxDebugs == 2     \* run_debugger calls in one behaviour
MaxStops == 1      \* stop_script calls in one behaviour
MaxEntries == 2    \* top-level entries of the drive that is backed up
MaxBackups == 2    \* backup_configuration calls in one behaviour
MaxSaves == 2      \* auto-save timer firings that find code in the editor
MaxDoc == 4        \* UTF-16 code units in the editor's document
MaxCommands == 2   \* commands typed into the debug console
MaxCloses == 2     \* closeEvent calls in one behaviour
MaxProgram == 5    \* lines a pip process writes to its two pipes
PipeCapacity == 2  \* lines a pipe holds before a write to it blocks
MaxDialogs == 2    \* folder dialogs shown during one startup

(***************************************************************************)
(* Sequences helpers                                                       *)
(***************************************************************************)
Range(s) == {s[i] : i \in 1..Len(s)}

SeqsUpTo(S, n) == UNION {[1..k -> S] : k \in 0..n}

\* QPlainTextEdit.appendPlainText, once per line
RECURSIVE AppendLines(_, _)
AppendLines(panel, lines) ==
    IF lines = <<>> THEN panel
    ELSE AppendLines(panel (+) SetToBag({Head(lines)}), Tail(lines))

\* the panel shows the line
Shows(panel, line) == BagIn(line, panel)

\* list(a_set): some order of the elements, each exactly once
ListOfDup(S) == {l \in SeqsUpTo(S, Cardinality(S) + 1) : Range(l) = S}
ListOf(S) == {l \in [1..Cardinality(S) -> S] : Range(l) = S}

(***************************************************************************)
(* 4.2 Package Name Resolver                                               *)
(***************************************************************************)
ImportToPypiTable == [n \in {"PIL", "yaml"} |-> IF n = "PIL" THEN "Pillow" ELSE "PyYAML"]

\* dict.get(key, default)
DictGet(d, key, default) == IF key \in DOMAIN d THEN d[key] ELSE default

get_pypi_package_name_identity(table, import_name) == import_name
get_pypi_package_name(table, import_name) == DictGet(table, import_name, import_name)

(***************************************************************************)
(* 4.1 Import Extractor                                                    *)
(***************************************************************************)
Node(type, names, level, module, body) ==
    [type |-> type, names |-> names, level |-> level, module |-> module, body |-> body]

None == <<>>   \* ImportFrom.module of "from . import z"

\* str.split('.') on a dotted name given by its tokens
RECURSIVE SplitDot(_)
SplitDot(name) ==
    IF name = <<>> THEN <<>>
    ELSE IF Head(name) = "." THEN SplitDot(Tail(name))
    ELSE <<Head(name)>> \o SplitDot(Tail(name))

\* one iteration of the loop over ast.walk(tree): lines 1143-1150
VisitNode(node, packages) ==
    IF node.type = "Import"
    THEN packages \cup {SplitDot(node.names[i])[1] : i \in 1..Len(node.names)}
    ELSE IF node.type = "ImportFrom"
         THEN IF node.module # None
              THEN packages \cup {SplitDot(node.module)[1]}
              ELSE packages
         ELSE packages

\* ast.walk: breadth-first, todo.popleft() then todo.extend(children)
RECURSIVE Walk(_, _)
Walk(todo, packages) ==
    IF todo = <<>> THEN packages
    ELSE Walk(Tail(todo) \o Head(todo).body, VisitNode(Head(todo), packages))

\* blank: code.strip() is empty (line 987)
SyntaxErrorSource == [ok |-> FALSE, body |-> <<>>, blank |-> FALSE]
Parsed(body) == [ok |-> TRUE, body |-> body, blank |-> FALSE]
BlankSource == [ok |-> TRUE, body |-> <<>>, blank |-> TRUE]

\* the set `packages` when the try block of lines 1140-1154 is left
ExtractedSet(src) == IF src.ok THEN Walk(src.body, {}) ELSE {}

\* what the except clause appends to output_panel (line 1153)
SyntaxErrorLinesNone(src) == <<>>
SyntaxErrorLines(src) ==
    IF src.ok THEN <<>> ELSE << <<"Syntax error while parsing imports: ", "invalid syntax">> >>

\* the possible return values: list(packages), line 1155
extract_imported_packages(src) == ListOf(ExtractedSet(src))

(***************************************************************************)
(* Extractor inputs                                                        *)
(***************************************************************************)
ModuleNames == {<<"a", ".", "b", ".", "c">>, <<"x", ".", "y">>, <<"PIL">>}

ImportStmts ==
    {Node("Import", <<m>>, 0, None, <<>>) : m \in ModuleNames}
    \cup {Node("Import", <<<<"a", ".", "b", ".", "c">>, <<"x", ".", "y">>>>, 0, None, <<>>),
          Node("Import", <<<<"PIL">>, <<"PIL">>>>, 0, None, <<>>)}

ImportFromStmts ==
    {Node("ImportFrom", <<>>, 0, m, <<>>) : m \in ModuleNames}
    \cup {Node("ImportFrom", <<>>, 1, m, <<>>) : m \in ModuleNames \cup {None}}

OtherStmts == {Node("Expr", <<>>, 0, None, <<>>)}

BodyStmts ==
    {Node("Import", <<<<"a", ".", "b", ".", "c">>>>, 0, None, <<>>),
     Node("ImportFrom", <<>>, 0, <<"x", ".", "y">>, <<>>),
     Node("ImportFrom", <<>>, 1, <<"x", ".", "y">>, <<>>),
     Node("ImportFrom", <<>>, 1, None, <<>>)}

CompoundStmts ==
    {Node(t, <<>>, 0, None, <<b>>) : t \in {"If", "FunctionDef", "ClassDef"}, b \in BodyStmts}

Stmts == ImportStmts \cup ImportFromStmts \cup OtherStmts \cup CompoundStmts

Sources == {Parsed(b) : b \in SeqsUpTo(Stmts, MaxStmts)} \cup {SyntaxErrorSource}

ImportNames == {"PIL", "yaml", "os", "a", "x", "Pillow"}

(***************************************************************************)
(* Specification of the extractor alone                                    *)
(***************************************************************************)
NotCalled == <<"not called">>

\* nothing has been installed by hand and nothing has escaped a handler
RestIdle ==
    /\ install_thread = <<>>
    /\ install_queue = <<>>
    /\ install_output = <<>>
    /\ uncaught = {}
    /\ debugger = <<>>
    /\ active_process = 0
    /\ active_thread = 0
    /\ stops = 0
    /\ usb_drive = <<>>
    /\ backup = [pc |-> "idle", listing |-> <<>>, next |-> 1, hidden |-> {},
                 attempted |-> {}, failed |-> {}, runs |-> 0]
    /\ auto_saves = 0
    /\ document = <<>>
    /\ current_search_pos = 0
    /\ cursor = [anchor |-> 0, position |-> 0]
    /\ last_op = [op |-> "none", term |-> <<>>, result |-> FALSE]
    /\ replacing = [pc |-> "idle", term |-> <<>>, text |-> <<>>, original |-> <<>>]
    /\ command_in_progress = FALSE
    /\ debug_console = <<>>
    /\ typed = 0
    /\ sender = [d \in 1..MaxDebugs |-> [pc |-> "poll", command |-> <<>>]]
    /\ written = <<>>
    /\ closing = <<>>
    /\ startup = [pc |-> "init", disk |-> <<>>, config |-> "absent", writable |-> FALSE,
                  python_executable |-> <<>>, checked |-> FALSE, asked |-> 0]
    /\ pipes = [pc |-> "idle", program |-> <<>>, stdout |-> 0, stderr |-> 0]

OrchIdle ==
    /\ install_threads = <<>>
    /\ task = <<>>
    /\ job = <<>>
    /\ ui_queue = <<>>
    /\ progress_bar = FALSE
    /\ error_log = <<>>
    /\ package_output_panel = EmptyBag
    /\ importable = <<>>

InitExtract ==
    /\ IMPORT_TO_PYPI = ImportToPypiTable
    /\ code \in Sources
    /\ imported_packages = NotCalled
    /\ lookups = <<>>
    /\ output_panel = EmptyBag
    /\ OrchIdle
    /\ RestIdle

ExtractCall ==
    /\ imported_packages = NotCalled
    /\ output_panel' = AppendLines(output_panel, SyntaxErrorLines(code))
    /\ error_log' = error_log \o SyntaxErrorLines(code)
    /\ imported_packages' \in extract_imported_packages(code)
    /\ UNCHANGED <<IMPORT_TO_PYPI, code, lookups, install_threads, task, job, ui_queue,
                   progress_bar, package_output_panel, importable>>
    /\ UNCHANGED rest_vars

NextExtract == ExtractCall

SpecExtract == InitExtract /\ [][NextExtract]_vars

(***************************************************************************)
(* Specification of the resolver alone                                     *)
(***************************************************************************)
InitResolve ==
    /\ IMPORT_TO_PYPI = ImportToPypiTable
    /\ code = SyntaxErrorSource
    /\ imported_packages = NotCalled
    /\ lookups = <<>>
    /\ output_panel = EmptyBag
    /\ OrchIdle
    /\ RestIdle

ResolveCall(n) ==
    /\ Len(lookups) < MaxLookups
    /\ lookups' = Append(lookups, <<n, get_pypi_package_name(IMPORT_TO_PYPI, n)>>)
    /\ UNCHANGED <<IMPORT_TO_PYPI, code, imported_packages, output_panel>>
    /\ UNCHANGED orch_vars
    /\ UNCHANGED rest_vars

NextResolve == \E n \in ImportNames : ResolveCall(n)

SpecResolve == InitResolve /\ [][NextResolve]_vars

(***************************************************************************)
(* 4.3 Installed-Module Prober                                             *)
(***************************************************************************)
\* what importlib.import_module(name) can do: return, raise ImportError, or
\* raise something else while the module's top-level code runs
ImportOutcomes == {"ok", "ImportError", "Exception"}

\* is_package_installed, lines 1157-1165: only ImportError is caught
ProbeRaises(outcome) == outcome \notin {"ok", "ImportError"}
is_package_installed(outcome) == outcome = "ok"

\* the list comprehension of line 1170 raises when a probe raises
ComprehensionRaises(imported, outcome) ==
    \E i \in 1..Len(imported) : ProbeRaises(outcome[imported[i]])

RECURSIVE Filter(_, _)
Filter(s, keep) ==
    IF s = <<>> THEN <<>>
    ELSE (IF Head(s) \in keep THEN <<Head(s)>> ELSE <<>>) \o Filter(Tail(s), keep)

MissingPackagesAll(imported, outcome) == imported
MissingPackagesTwice(imported, outcome) ==
    Filter(imported \o imported, {n \in Range(imported) : ~is_package_installed(outcome[n])})
MissingPackages(imported, outcome) ==
    Filter(imported, {n \in Range(imported) : ~is_package_installed(outcome[n])})

(***************************************************************************)
(* 4.4 Install Job Runner: InstallPackageThread                            *)
(***************************************************************************)
Whitespace == {" ", "\n"}

\* str.strip()
RECURSIVE LStrip(_)
LStrip(s) == IF s # <<>> /\ Head(s) \in Whitespace THEN LStrip(Tail(s)) ELSE s
RECURSIVE RStrip(_)
RStrip(s) ==
    IF s # <<>> /\ s[Len(s)] \in Whitespace THEN RStrip(SubSeq(s, 1, Len(s) - 1)) ELSE s
Strip(s) == RStrip(LStrip(s))

LineNumber == <<"1", "2", "3", "4">>
PipLine(k) == <<"Collecting ", LineNumber[k], "\n">>
PipOutput(n) == [k \in 1..n |-> PipLine(k)]

PipStderr == <<"ERROR: No matching distribution found", "\n">>

\* how a pip process can end: its return code and what it wrote to stderr
ExitOutcomes ==
    {[returncode |-> 0, stderr |-> <<>>],
     [returncode |-> 1, stderr |-> PipStderr]}

NoExit == [returncode |-> -1, stderr |-> <<>>]

Emission(signal, line) == [signal |-> signal, line |-> line]

AttemptLine(package) == <<"Attempting to install: ", package>>
SuccessLine(package) == <<"Successfully installed: ", package>>
SkippingLine(package, stderr_output) ==
    <<"Skipping installation of ", package, ": ">> \o Strip(stderr_output)
UnexpectedLine(package, e) == <<"Unexpected error installing ", package, ": ", e>>

\* str(e) of what the try block of lines 85-110 can raise: Popen does not find
\* the interpreter; a byte of the pipe is not text in the locale's encoding
PopenError == "[Errno 2] No such file or directory"
DecodeError == "'charmap' codec can't decode byte 0x81"

\* lines 106-109
FinalEmissions(package, returncode, stderr_output) ==
    IF returncode = 0
    THEN <<Emission("progress_signal", SuccessLine(package))>>
    ELSE <<Emission("skip_signal", SkippingLine(package, stderr_output))>>

\* the signals check_and_install_missing_packages connects, lines 1180-1181
ConnectedSignalsErrorOnly == {"error_signal"}
ConnectedSignals == {"progress_signal", "error_signal"}

NewJob(owner, import_name, package) ==
    [owner       |-> owner,
     import_name |-> import_name,
     package     |-> package,
     connected   |-> ConnectedSignals,
     pc          |-> "started",
     proc        |-> "none",
     stdout      |-> <<>>,
     exit        |-> NoExit,
     emitted     |-> <<>>]

\* signal.emit(line) from the job's thread: one queued call per connected slot
Queued(connected, emissions) ==
    Filter(emissions, {e \in Range(emissions) : e.signal \in connected})

EmitAll(j, emissions) ==
    ui_queue' = [ui_queue EXCEPT ![j] = @ \o Queued(job[j].connected, emissions)]

JobIds == 1..Len(job)

\* lines 86-93: the first emission and subprocess.Popen, which starts a
\* process (that will write MaxLines lines) or raises (lines 112-113)
JobStart(j) ==
    /\ job[j].pc = "started"
    /\ \/ /\ job' = [job EXCEPT ![j].pc = "reading", ![j].proc = "running",
                                ![j].stdout = PipOutput(MaxLines),
                                ![j].emitted = Append(@, Emission("progress_signal",
                                                           AttemptLine(job[j].package)))]
          /\ EmitAll(j, <<Emission("progress_signal", AttemptLine(job[j].package))>>)
       \/ /\ job' = [job EXCEPT ![j].pc = "finished", ![j].proc = "not started",
                                ![j].emitted = @ \o
                                   <<Emission("progress_signal", AttemptLine(job[j].package)),
                                     Emission("skip_signal", UnexpectedLine(job[j].package, PopenError))>>]
          /\ EmitAll(j, <<Emission("progress_signal", AttemptLine(job[j].package)),
                          Emission("skip_signal", UnexpectedLine(job[j].package, PopenError))>>)
    /\ UNCHANGED <<IMPORT_TO_PYPI, code, imported_packages, lookups, output_panel,
                   package_output_panel, install_threads, task, progress_bar, error_log,
                   importable>>
    /\ UNCHANGED rest_vars

\* lines 96-99: one line read from the pipe and emitted
JobReadLine(j) ==
    /\ job[j].pc = "reading"
    /\ job[j].stdout # <<>>
    /\ job' = [job EXCEPT ![j].stdout = Tail(@),
                          ![j].emitted = Append(@, Emission("progress_signal",
                                                            Strip(Head(job[j].stdout))))]
    /\ EmitAll(j, <<Emission("progress_signal", Strip(Head(job[j].stdout)))>>)
    /\ UNCHANGED <<IMPORT_TO_PYPI, code, imported_packages, lookups, output_panel,
                   package_output_panel, install_threads, task, progress_bar, error_log,
                   importable>>
    /\ UNCHANGED rest_vars

\* lines 96 and 112-113: readline raises (the pipe is opened with text=True)
\* and the except clause emits; the pip process is left as it is
JobReadRaise(j) ==
    /\ job[j].pc = "reading"
    /\ job[j].stdout # <<>>
    /\ job' = [job EXCEPT ![j].pc = "finished",
                          ![j].emitted = Append(@, Emission("skip_signal",
                                                   UnexpectedLine(job[j].package, DecodeError)))]
    /\ EmitAll(j, <<Emission("skip_signal", UnexpectedLine(job[j].package, DecodeError))>>)
    /\ UNCHANGED <<IMPORT_TO_PYPI, code, imported_packages, lookups, output_panel,
                   package_output_panel, install_threads, task, progress_bar, error_log,
                   importable>>
    /\ UNCHANGED rest_vars

\* lines 96, 101: readline returns '' once the process has closed its output
JobReadEOF(j) ==
    /\ job[j].pc = "reading"
    /\ job[j].stdout = <<>>
    /\ job' = [job EXCEPT ![j].pc = "waiting"]
    /\ UNCHANGED <<IMPORT_TO_PYPI, code, imported_packages, lookups, output_panel,
                   package_output_panel, install_threads, task, progress_bar, error_log,
                   ui_queue, importable>>
    /\ UNCHANGED rest_vars

\* line 102: process.wait() returns when the pip process has ended
JobWait(j) ==
    /\ job[j].pc = "waiting"
    /\ \E x \in ExitOutcomes :
          job' = [job EXCEPT ![j].pc = "reporting", ![j].proc = "exited", ![j].exit = x]
    /\ UNCHANGED <<IMPORT_TO_PYPI, code, imported_packages, lookups, output_panel,
                   package_output_panel, install_threads, task, progress_bar, error_log,
                   ui_queue, importable>>
    /\ UNCHANGED rest_vars

\* lines 105-110: stderr is read and the result is emitted, or reading stderr
\* raises (lines 112-113)
JobReport(j) ==
    /\ job[j].pc = "reporting"
    /\ \E out \in {FinalEmissions(job[j].package, job[j].exit.returncode, job[j].exit.stderr),
                    <<Emission("skip_signal", UnexpectedLine(job[j].package, DecodeError))>>} :
          /\ job' = [job EXCEPT ![j].pc = "finished", ![j].emitted = @ \o out]
          /\ EmitAll(j, out)
    /\ UNCHANGED <<IMPORT_TO_PYPI, code, imported_packages, lookups, output_panel,
                   package_output_panel, install_threads, task, progress_bar, error_log,
                   importable>>
    /\ UNCHANGED rest_vars

(***************************************************************************)
(* The UI thread: slots run for queued signals                             *)
(***************************************************************************)
LogNotice == <<"An error occurred. Check the error log for details.">>
LogFailure == <<"Failed to write to error log: ", "[Errno 13] Permission denied">>

\* handle_install_output (1231-1236) and handle_install_error (1238-1243,
\* with log_error 766-793, whose open() may fail)
DeliverSignal(j) ==
    /\ ui_queue[j] # <<>>
    /\ ui_queue' = [ui_queue EXCEPT ![j] = Tail(@)]
    /\ LET call == Head(ui_queue[j])
       IN IF call.signal = "progress_signal"
          THEN /\ package_output_panel' = AppendLines(package_output_panel, <<call.line>>)
               /\ UNCHANGED error_log
          ELSE \/ /\ error_log' = error_log \o <<call.line, call.line>>
                  /\ package_output_panel' =
                        AppendLines(package_output_panel, <<call.line, LogNotice>>)
               \/ /\ error_log' = Append(error_log, call.line)
                  /\ package_output_panel' =
                        AppendLines(package_output_panel, <<call.line, LogFailure>>)
    /\ UNCHANGED <<IMPORT_TO_PYPI, code, imported_packages, lookups, output_panel,
                   install_threads, task, job, progress_bar, importable>>
    /\ UNCHANGED rest_vars

(***************************************************************************)
(* 4.5 Orchestrator: run_code, load_code, check_and_install_missing_packages*)
(***************************************************************************)
OrchSources ==
    {BlankSource,
     SyntaxErrorSource,
     Parsed(<<Node("Import", <<<<"PIL">>>>, 0, None, <<>>),
              Node("If", <<>>, 0, None,
                   <<Node("ImportFrom", <<>>, 0, <<"yaml", ".", "nodes">>, <<>>)>>)>>)}

ProbedNames == {"PIL", "yaml"}

\* the interpreters in which the program can run
Environments == [ProbedNames -> ImportOutcomes]

NewTask(kind, pc, src) ==
    [kind |-> kind, pc |-> pc, code |-> src, missing |-> <<>>, spawned |-> 0,
     it |-> 0, cur |-> 0]

\* a handler that started no thread, or a thread that has ended (its locals
\* are gone)
EndedTask == NewTask("none", "done", BlankSource)
Ended(t) == EndedTask

TaskIds == 1..Len(task)

RunningLine == <<"Running the following code:">>
NoCodeLine == <<"No code to execute.">>
LoadedLine == <<"Loaded script from ", "script.py">>
LoadFailedLine == <<"Failed to load script: ", "[Errno 13] Permission denied">>
DetectedLine(missing) == <<"Detected missing packages: ">> \o missing
InstallingLine(missing) == <<"Installing missing packages: ">> \o missing
AllInstalledLine == <<"All required packages are already installed.">>
AnnounceLine == <<"All missing packages installed. Executing the code...">>
RunCodeErrorLine == <<"Run Code Error: ", "import failed">>

\* the jobs one call of check_and_install_missing_packages on src starts
JobsFor(src) ==
    IF \E n \in ExtractedSet(src) : ProbeRaises(importable[n]) THEN 0
    ELSE Cardinality({n \in ExtractedSet(src) : ~is_package_installed(importable[n])})

\* the jobs that the running tasks will still start
RECURSIVE JobsCommitted(_)
JobsCommitted(ts) ==
    IF ts = <<>> THEN 0
    ELSE (IF Head(ts).pc = "begin" THEN JobsFor(Head(ts).code)
          ELSE Len(Head(ts).missing) - Head(ts).spawned)
         + JobsCommitted(Tail(ts))

\* the user starts an action only while the jobs it brings stay within MaxJobs
Admissible(src) ==
    /\ Len(task) < MaxTasks
    /\ Len(job) + JobsCommitted(task) + JobsFor(src) <= MaxJobs

\* run_code, lines 985-1016, up to the start of its thread; src is the text
\* the user has typed into the code editor when clicking Run Code
RunCode(src) ==
    /\ Admissible(src)
    /\ code' = src
    /\ IF ~src.blank
       THEN /\ task' = Append(task, NewTask("run", "begin", src))
            /\ UNCHANGED output_panel
       ELSE /\ task' = Append(task, EndedTask)
            /\ output_panel' = AppendLines(output_panel, <<NoCodeLine>>)
    /\ UNCHANGED <<IMPORT_TO_PYPI, imported_packages, lookups,
                   package_output_panel, install_threads, job, ui_queue,
                   progress_bar, error_log, importable>>
    /\ UNCHANGED rest_vars

\* load_code, lines 962-976: the file is read into the editor and a thread
\* is started on check_and_install_missing_packages, or reading fails
LoadCode(src) ==
    /\ Admissible(src)
    /\ \/ /\ code' = src
          /\ output_panel' = AppendLines(output_panel, <<LoadedLine>>)
          /\ task' = Append(task, NewTask("load", "begin", src))
       \/ /\ code' = code
          /\ output_panel' = AppendLines(output_panel, <<LoadFailedLine>>)
          /\ task' = Append(task, EndedTask)
    /\ UNCHANGED <<IMPORT_TO_PYPI, imported_packages, lookups,
                   package_output_panel, install_threads, job, ui_queue,
                   progress_bar, error_log, importable>>
    /\ UNCHANGED rest_vars

\* where a task goes when check_and_install_missing_packages returns / raises
AfterCheck(t) == IF t.kind = "run" THEN [t EXCEPT !.pc = "iterate"] ELSE Ended(t)
AfterRaise(t) == IF t.kind = "run" THEN [t EXCEPT !.pc = "except"] ELSE Ended(t)

\* lines 990-992 of the run_code task
BeginLines(kind, panel) ==
    IF kind = "run" THEN AppendLines(EmptyBag, <<RunningLine>>) ELSE panel

\* The task's thread up to the loop that starts the jobs.  run_code: lines
\* 990-992 (progress bar shown, panel cleared); then, for both kinds of task,
\* check_and_install_missing_packages lines 1169-1174 and 1184-1185: the
\* imports are extracted (1135-1155), every name is probed (1157-1165) and the
\* result is shown.  None of this reads or writes install_threads or a job.
TaskBegin(t) ==
    /\ task[t].pc = "begin"
    /\ progress_bar' = IF task[t].kind = "run" THEN TRUE ELSE progress_bar
    /\ error_log' = error_log \o SyntaxErrorLines(task[t].code)
    /\ \E imported \in extract_imported_packages(task[t].code) :
          LET shown == AppendLines(BeginLines(task[t].kind, output_panel),
                                   SyntaxErrorLines(task[t].code))
              missing == MissingPackages(imported, importable)
          IN IF ComprehensionRaises(imported, importable)
             THEN /\ task' = [task EXCEPT ![t] = AfterRaise(task[t])]
                  /\ output_panel' = shown
                  /\ UNCHANGED package_output_panel
             ELSE IF missing # <<>>
                  THEN /\ task' = [task EXCEPT ![t].pc = "spawn", ![t].missing = missing]
                       /\ output_panel' = AppendLines(shown, <<DetectedLine(missing)>>)
                       /\ package_output_panel' =
                             AppendLines(package_output_panel, <<InstallingLine(missing)>>)
                  ELSE /\ task' = [task EXCEPT ![t] = AfterCheck(task[t])]
                       /\ output_panel' = AppendLines(shown, <<AllInstalledLine>>)
                       /\ UNCHANGED package_output_panel
    /\ UNCHANGED <<IMPORT_TO_PYPI, code, imported_packages, lookups, install_threads,
                   job, ui_queue, importable>>
    /\ UNCHANGED rest_vars

\* one iteration of the loop of lines 1177-1183
TaskSpawn(t) ==
    /\ task[t].pc = "spawn"
    /\ LET name == task[t].missing[task[t].spawned + 1]
           pypi_package == get_pypi_package_name(IMPORT_TO_PYPI, name)
       IN /\ job' = Append(job, NewJob(t, name, pypi_package))
          /\ install_threads' = Append(install_threads, Len(job) + 1)
          /\ ui_queue' = Append(ui_queue, <<>>)
          /\ task' = [task EXCEPT ![t] =
                         IF task[t].spawned + 1 = Len(task[t].missing)
                         THEN AfterCheck([task[t] EXCEPT !.missing = <<>>, !.spawned = 0])
                         ELSE [task[t] EXCEPT !.spawned = @ + 1]]
    /\ UNCHANGED <<IMPORT_TO_PYPI, code, imported_packages, lookups, output_panel,
                   package_output_panel, progress_bar, error_log, importable>>
    /\ UNCHANGED rest_vars

\* line 998: the list iterator of the for loop takes the next element, if any
TaskNextThread(t) ==
    /\ task[t].pc = "iterate"
    /\ IF task[t].it < Len(install_threads)
       THEN task' = [task EXCEPT ![t].pc = "wait", ![t].it = @ + 1,
                                 ![t].cur = install_threads[task[t].it + 1]]
       ELSE task' = [task EXCEPT ![t].pc = "clear", ![t].it = 0, ![t].cur = 0]
    /\ UNCHANGED <<IMPORT_TO_PYPI, code, imported_packages, lookups, output_panel,
                   package_output_panel, install_threads, job, ui_queue,
                   progress_bar, error_log, importable>>
    /\ UNCHANGED rest_vars

\* QThread.wait() may return: the thread's run() has returned
ThreadFinished(j) == job[j].pc = "finished"

\* line 999: thread.wait()
TaskWait(t) ==
    /\ task[t].pc = "wait"
    /\ ThreadFinished(task[t].cur)
    /\ task' = [task EXCEPT ![t].pc = "iterate"]
    /\ UNCHANGED <<IMPORT_TO_PYPI, code, imported_packages, lookups, output_panel,
                   package_output_panel, install_threads, job, ui_queue,
                   progress_bar, error_log, importable>>
    /\ UNCHANGED rest_vars

\* line 1000
TaskClear(t) ==
    /\ task[t].pc = "clear"
    /\ install_threads' = <<>>
    /\ task' = [task EXCEPT ![t].pc = "announce"]
    /\ UNCHANGED <<IMPORT_TO_PYPI, code, imported_packages, lookups, output_panel,
                   package_output_panel, job, ui_queue, progress_bar, error_log,
                   importable>>
    /\ UNCHANGED rest_vars

\* line 1002
TaskAnnounce(t) ==
    /\ task[t].pc = "announce"
    /\ output_panel' = AppendLines(output_panel, <<AnnounceLine>>)
    /\ task' = [task EXCEPT ![t].pc = "execute"]
    /\ UNCHANGED <<IMPORT_TO_PYPI, code, imported_packages, lookups,
                   package_output_panel, install_threads, job, ui_queue,
                   progress_bar, error_log, importable>>
    /\ UNCHANGED rest_vars

ExecutingLine == <<"Executing code...">>
ExecuteErrorLine == <<"Error executing code: ", PopenError>>
TempFileErrorLine == <<"Error executing code: ", "[Errno 28] No space left on device">>
RunCodeUnboundLine ==
    <<"Run Code Error: ", "local variable 'temp_script_path' referenced before assignment">>

\* how execute_code reports the end of the script, lines 1063-1067
ExecuteLines ==
    {<<"Script executed successfully.">>, <<"Script execution failed with errors.">>}

\* line 1005, execute_code lines 1020-1035: the temporary file is written and
\* the script's process is started.  When the file cannot be created, the
\* finally clause (1076-1077) reads temp_script_path, which was never
\* assigned, and the UnboundLocalError is reported by the task's except clause
\* (1007-1012); when Popen raises, execute_code reports it (1069-1073) and
\* returns.
TaskExecStart(t) ==
    /\ task[t].pc = "execute"
    /\ \/ /\ output_panel' = AppendLines(output_panel, <<ExecutingLine>>)
          /\ task' = [task EXCEPT ![t].pc = "communicate"]
          /\ UNCHANGED <<error_log, progress_bar>>
       \/ /\ output_panel' = AppendLines(output_panel,
                                          <<TempFileErrorLine, LogNotice,
                                            RunCodeUnboundLine, LogNotice>>)
          /\ error_log' = error_log \o <<TempFileErrorLine, RunCodeUnboundLine>>
          /\ progress_bar' = FALSE
          /\ task' = [task EXCEPT ![t] = Ended(task[t])]
       \/ /\ output_panel' = AppendLines(output_panel,
                                          <<ExecutingLine, ExecuteErrorLine, LogNotice>>)
          /\ error_log' = Append(error_log, ExecuteErrorLine)
          /\ progress_bar' = FALSE
          /\ task' = [task EXCEPT ![t] = Ended(task[t])]
    /\ UNCHANGED <<IMPORT_TO_PYPI, code, imported_packages, lookups,
                   package_output_panel, install_threads, job, ui_queue, importable>>
    /\ UNCHANGED rest_vars

\* execute_code lines 1037-1067 and run_code lines 1011-1012: communicate()
\* returns when the script has ended, the result is shown and the progress bar
\* is hidden
TaskExecute(t) ==
    /\ task[t].pc = "communicate"
    /\ \E line \in ExecuteLines : output_panel' = AppendLines(output_panel, <<line>>)
    /\ progress_bar' = FALSE
    /\ task' = [task EXCEPT ![t] = Ended(task[t])]
    /\ UNCHANGED <<IMPORT_TO_PYPI, code, imported_packages, lookups,
                   package_output_panel, install_threads, job, ui_queue,
                   error_log, importable>>
    /\ UNCHANGED rest_vars

\* lines 1007-1012, with log_error(panel='editor'), whose open() may fail
TaskExcept(t) ==
    /\ task[t].pc = "except"
    /\ \/ /\ error_log' = Append(error_log, RunCodeErrorLine)
          /\ output_panel' = AppendLines(output_panel, <<RunCodeErrorLine, LogNotice>>)
       \/ /\ error_log' = error_log
          /\ output_panel' = AppendLines(output_panel, <<RunCodeErrorLine, LogFailure>>)
    /\ progress_bar' = FALSE
    /\ task' = [task EXCEPT ![t] = Ended(task[t])]
    /\ UNCHANGED <<IMPORT_TO_PYPI, code, imported_packages, lookups,
                   package_output_panel, install_threads, job, ui_queue, importable>>
    /\ UNCHANGED rest_vars

Init ==
    /\ IMPORT_TO_PYPI = ImportToPypiTable
    /\ code = BlankSource
    /\ imported_packages = NotCalled
    /\ lookups = <<>>
    /\ output_panel = EmptyBag
    /\ install_threads = <<>>
    /\ task = <<>>
    /\ job = <<>>
    /\ ui_queue = <<>>
    /\ progress_bar = FALSE
    /\ error_log = <<>>
    /\ package_output_panel = EmptyBag
    /\ importable \in Environments
    /\ RestIdle

Next ==
    \/ \E src \in OrchSources : RunCode(src)
    \/ \E src \in OrchSources : LoadCode(src)
    \/ \E t \in TaskIds : TaskBegin(t)
    \/ \E t \in TaskIds : TaskSpawn(t)
    \/ \E t \in TaskIds : TaskNextThread(t)
    \/ \E t \in TaskIds : TaskWait(t)
    \/ \E t \in TaskIds : TaskClear(t)
    \/ \E t \in TaskIds : TaskAnnounce(t)
    \/ \E t \in TaskIds : TaskExecStart(t)
    \/ \E t \in TaskIds : TaskExecute(t)
    \/ \E t \in TaskIds : TaskExcept(t)
    \/ \E j \in JobIds : JobStart(j)
    \/ \E j \in JobIds : JobReadLine(j)
    \/ \E j \in JobIds : JobReadRaise(j)
    \/ \E j \in JobIds : JobReadEOF(j)
    \/ \E j \in JobIds : JobWait(j)
    \/ \E j \in JobIds : JobReport(j)
    \/ \E j \in JobIds : DeliverSignal(j)

Spec == Init /\ [][Next]_vars

(***************************************************************************)
(* install_package and InstallThread (the Install button of the package    *)
(* tab)                                                                    *)
(***************************************************************************)
\* what a pip process writes, line by line: the stream of each line
Programs == SeqsUpTo({"stdout", "stderr"}, MaxWrites)

\* the lines of a program that go to one stream, in the order written
RECURSIVE PipeOf(_, _, _)
PipeOf(program, stream, k) ==
    IF program = <<>> THEN <<>>
    ELSE (IF Head(program) = stream THEN <<PipLine(k)>> ELSE <<>>)
         \o PipeOf(Tail(program), stream, k + 1)

PackageNames == {<<"requests">>, <<" ">>}

\* package_name.strip() is not empty (line 1188)
NonBlank(name) == Strip(name) # <<>>

NewInstall(package_name, async_install) ==
    [package |-> package_name,
     async   |-> async_install,
     pc      |-> IF async_install THEN "started" ELSE "finished",
     popens  |-> 0,
     program |-> <<>>,
     stdout  |-> <<>>,
     stderr  |-> <<>>]

InstallingLine2(package_name, how) == <<"Installing ">> \o package_name \o <<how>>
ErrorInstallingLine(package_name, e) ==
    <<"Error installing ">> \o package_name \o <<": ", e>>

Shown(i, lines) == [k \in 1..Len(lines) |-> [thread |-> i, line |-> lines[k]]]

\* the concatenation of the lines of a pipe: what read() returns
RECURSIVE ReadAll(_)
ReadAll(pipe) == IF pipe = <<>> THEN <<>> ELSE Head(pipe) \o ReadAll(Tail(pipe))

\* lines 1202-1214: subprocess.run and what is appended for its result
SyncLines(package_name, program, returncode) ==
    << ReadAll(PipeOf(program, "stdout", 1)) >>
    \o (IF PipeOf(program, "stderr", 1) # <<>>
        THEN << <<"Error: ">> \o ReadAll(PipeOf(program, "stderr", 1)) >>
        ELSE <<>>)
    \o (IF returncode = 0
        THEN << package_name \o <<" installed successfully.">> >>
        ELSE << <<"Failed to install ">> \o package_name >>)

\* install_package, lines 1187-1216.  The else branch of line 1215 uses
\* output_panel, which is assigned only inside the if: UnboundLocalError.
install_package(package_name, async_install) ==
    /\ Len(install_thread) < MaxInstalls
    /\ LET i == Len(install_thread) + 1
       IN IF NonBlank(package_name)
          THEN IF async_install
               THEN /\ install_thread' = Append(install_thread, NewInstall(package_name, TRUE))
                    /\ install_queue' = Append(install_queue, <<>>)
                    /\ install_output' = install_output \o
                          Shown(i, <<InstallingLine2(package_name, " asynchronously...")>>)
                    /\ UNCHANGED uncaught
               ELSE /\ install_queue' = Append(install_queue, <<>>)
                    /\ UNCHANGED uncaught
                    /\ \/ \E program \in Programs, returncode \in {0, 1} :
                             /\ install_thread' = Append(install_thread,
                                   [NewInstall(package_name, FALSE) EXCEPT
                                       !.popens = 1, !.program = program])
                             /\ install_output' = install_output \o
                                   Shown(i, <<InstallingLine2(package_name, " synchronously...")>>
                                            \o SyncLines(package_name, program, returncode))
                       \/ /\ install_thread' = Append(install_thread,
                                   [NewInstall(package_name, FALSE) EXCEPT !.popens = 1])
                          /\ install_output' = install_output \o
                                Shown(i, <<InstallingLine2(package_name, " synchronously..."),
                                           ErrorInstallingLine(package_name, PopenError)>>)
          ELSE /\ install_thread' = Append(install_thread,
                      [NewInstall(package_name, FALSE) EXCEPT !.pc = "raised"])
               /\ install_queue' = Append(install_queue, <<>>)
               /\ uncaught' = uncaught \cup {"UnboundLocalError"}
               /\ UNCHANGED install_output
    /\ UNCHANGED beyond_install

InstallIds == 1..Len(install_thread)

InstEmit(i, emissions) ==
    install_queue' = [install_queue EXCEPT ![i] = @ \o emissions]

\* InstallThread.run, lines 453-460: Popen starts a process (which writes its
\* program) or raises (lines 470-471)
InstStart(i) ==
    /\ install_thread[i].pc = "started"
    /\ \/ /\ \E program \in Programs :
                install_thread' = [install_thread EXCEPT
                    ![i].pc = "stdout", ![i].popens = @ + 1, ![i].program = program,
                    ![i].stdout = PipeOf(program, "stdout", 1),
                    ![i].stderr = PipeOf(program, "stderr", 1)]
          /\ UNCHANGED install_queue
       \/ /\ install_thread' = [install_thread EXCEPT
                                   ![i].pc = "finished", ![i].popens = @ + 1]
          /\ InstEmit(i, <<Emission("error_signal",
                             ErrorInstallingLine(install_thread[i].package, PopenError))>>)
    /\ UNCHANGED <<install_output, uncaught>>
    /\ UNCHANGED beyond_install

\* lines 462-463: the next line of stdout, or its end
InstReadStdout(i) ==
    /\ install_thread[i].pc = "stdout"
    /\ IF install_thread[i].stdout # <<>>
       THEN /\ install_thread' = [install_thread EXCEPT ![i].stdout = Tail(@)]
            /\ InstEmit(i, <<Emission("package_installed_signal",
                               Strip(Head(install_thread[i].stdout)))>>)
       ELSE /\ install_thread' = [install_thread EXCEPT ![i].pc = "stderr"]
            /\ UNCHANGED install_queue
    /\ UNCHANGED <<install_output, uncaught>>
    /\ UNCHANGED beyond_install

\* lines 464-469: the next line of stderr, or its end, close and wait
InstReadStderr(i) ==
    /\ install_thread[i].pc = "stderr"
    /\ IF install_thread[i].stderr # <<>>
       THEN /\ install_thread' = [install_thread EXCEPT ![i].stderr = Tail(@)]
            /\ InstEmit(i, <<Emission("error_signal",
                               Strip(Head(install_thread[i].stderr)))>>)
       ELSE /\ install_thread' = [install_thread EXCEPT ![i].pc = "finished"]
            /\ UNCHANGED install_queue
    /\ UNCHANGED <<install_output, uncaught>>
    /\ UNCHANGED beyond_install

\* lines 462-471: reading a pipe raises (text=True) and the except clause emits
InstReadRaise(i) ==
    /\ \/ install_thread[i].pc = "stdout" /\ install_thread[i].stdout # <<>>
       \/ install_thread[i].pc = "stderr" /\ install_thread[i].stderr # <<>>
    /\ install_thread' = [install_thread EXCEPT ![i].pc = "finished"]
    /\ InstEmit(i, <<Emission("error_signal",
                       ErrorInstallingLine(install_thread[i].package, DecodeError))>>)
    /\ UNCHANGED <<install_output, uncaught>>
    /\ UNCHANGED beyond_install

\* the slots of lines 1194-1195, run by the UI thread
InstDeliver(i) ==
    /\ install_queue[i] # <<>>
    /\ install_queue' = [install_queue EXCEPT ![i] = Tail(@)]
    /\ LET call == Head(install_queue[i])
       IN install_output' = install_output \o
             Shown(i, << IF call.signal = "package_installed_signal"
                         THEN call.line
                         ELSE <<"Error: ">> \o call.line >>)
    /\ UNCHANGED <<install_thread, uncaught>>
    /\ UNCHANGED beyond_install

\* the program with Load Script and the Install button in use
NextInstall ==
    \/ \E src \in OrchSources : LoadCode(src)
    \/ \E t \in TaskIds : TaskBegin(t)
    \/ \E t \in TaskIds : TaskSpawn(t)
    \/ \E j \in JobIds : JobStart(j)
    \/ \E j \in JobIds : JobReadLine(j)
    \/ \E j \in JobIds : JobReadRaise(j)
    \/ \E j \in JobIds : JobReadEOF(j)
    \/ \E j \in JobIds : JobWait(j)
    \/ \E j \in JobIds : JobReport(j)
    \/ \E j \in JobIds : DeliverSignal(j)
    \/ \E n \in PackageNames, a \in BOOLEAN : install_package(n, a)
    \/ \E i \in InstallIds : InstStart(i)
    \/ \E i \in InstallIds : InstReadStdout(i)
    \/ \E i \in InstallIds : InstReadStderr(i)
    \/ \E i \in InstallIds : InstReadRaise(i)
    \/ \E i \in InstallIds : InstDeliver(i)

\* an interpreter in which PIL can be imported and yaml cannot
InitInstall ==
    /\ Init
    /\ importable = [n \in ProbedNames |-> IF n = "PIL" THEN "ok" ELSE "ImportError"]

SpecInstall == InitInstall /\ [][NextInstall]_vars

(***************************************************************************)
(* run_debugger, read_debug_output and stop_script                         *)
(***************************************************************************)
NewDebug(pc) == [pc |-> pc, proc |-> "none", order |-> 0]

DebugIds == 1..Len(debugger)

NoCodeToDebugLine == <<"No code to debug.">>
StartingDebuggerLine == <<"Starting debugger...">>
DebuggerErrorLine == <<"Debugger error: ", PopenError>>
ReadErrorLine ==
    <<"Error reading debugger output: ",
      "underlying read() should have returned a bytes-like object, not 'str'">>
ScriptTerminatedLine == <<"Script terminated.">>
FailedToTerminateLine == <<"Failed to terminate the process: ", "[WinError 5] Access is denied">>
StoppingInitiatedLine == <<"Script stopping initiated.">>

\* run_debugger, lines 1654-1659 and 1692-1693; src is the text in the editor
run_debugger(src) ==
    /\ Len(debugger) < MaxDebugs
    /\ code' = src
    /\ IF src.blank
       THEN /\ output_panel' = AppendLines(output_panel, <<NoCodeToDebugLine>>)
            /\ debugger' = Append(debugger, NewDebug("done"))
            /\ UNCHANGED active_thread
       ELSE /\ debugger' = Append(debugger, NewDebug("begin"))
            /\ active_thread' = Len(debugger) + 1
            /\ UNCHANGED output_panel
    /\ UNCHANGED <<IMPORT_TO_PYPI, imported_packages, lookups, package_output_panel,
                   install_threads, task, job, ui_queue, progress_bar, error_log,
                   importable>>
    /\ UNCHANGED <<active_process, stops>>
    /\ UNCHANGED beyond_debug

\* debug_task, lines 1662-1665, run by its own thread
DebugBegin(d) ==
    /\ debugger[d].pc = "begin"
    /\ progress_bar' = TRUE
    /\ output_panel' = AppendLines(EmptyBag, <<StartingDebuggerLine>>)
    /\ debug_console' = <<>>
    /\ debugger' = [debugger EXCEPT ![d].pc = "popen"]
    /\ UNCHANGED <<IMPORT_TO_PYPI, code, imported_packages, lookups, package_output_panel,
                   install_threads, task, job, ui_queue, error_log, importable>>
    /\ UNCHANGED <<active_process, active_thread, stops>>
    /\ UNCHANGED <<install_vars, uncaught, file_vars, editor_vars, late_vars>>
    /\ UNCHANGED <<command_in_progress, typed, sender, written>>

\* the debugger processes started so far
Started == {e \in DebugIds : debugger[e].proc # "none"}

\* debug_task, lines 1667-1690: the pdb process is started and kept in
\* active_process and its reader thread is started, or an exception is
\* reported; the progress bar is hidden either way
DebugPopen(d) ==
    /\ debugger[d].pc = "popen"
    /\ \/ /\ debugger' = [debugger EXCEPT ![d].pc = "reading", ![d].proc = "running",
                                          ![d].order = Cardinality(Started) + 1]
          /\ active_process' = d
          /\ UNCHANGED <<output_panel, error_log>>
       \/ /\ debugger' = [debugger EXCEPT ![d].pc = "done"]
          /\ output_panel' = AppendLines(output_panel, <<DebuggerErrorLine, LogNotice>>)
          /\ error_log' = Append(error_log, DebuggerErrorLine)
          /\ UNCHANGED active_process
    /\ progress_bar' = FALSE
    /\ UNCHANGED <<IMPORT_TO_PYPI, code, imported_packages, lookups, package_output_panel,
                   install_threads, task, job, ui_queue, importable>>
    /\ UNCHANGED <<active_thread, stops>>
    /\ UNCHANGED beyond_debug

\* read_debug_output, lines 1716-1726.  process.stdout is a text stream
\* (text=True, line 1679) and line 1717 wraps it in another TextIOWrapper,
\* whose first read asks the text stream for a whole chunk: the call returns
\* when the debugger's output has ended or has filled the chunk, with a str
\* where bytes are required, and the iteration raises TypeError.  No line of
\* the debugger is ever shown and no '(Pdb)' prompt is ever seen.
DebugReadRaise(d) ==
    /\ debugger[d].pc = "reading"
    /\ \/ /\ error_log' = Append(error_log, ReadErrorLine)
          /\ output_panel' = AppendLines(output_panel, <<ReadErrorLine, LogNotice>>)
       \/ /\ error_log' = error_log
          /\ output_panel' = AppendLines(output_panel, <<ReadErrorLine, LogFailure>>)
    /\ debugger' = [debugger EXCEPT ![d].pc = "done"]
    /\ UNCHANGED <<IMPORT_TO_PYPI, code, imported_packages, lookups, package_output_panel,
                   install_threads, task, job, ui_queue, progress_bar, importable>>
    /\ UNCHANGED <<active_process, active_thread, stops>>
    /\ UNCHANGED beyond_debug

\* the pdb process ends by itself
DebugProcExit(d) ==
    /\ debugger[d].proc = "running"
    /\ debugger' = [debugger EXCEPT ![d].proc = "exited"]
    /\ UNCHANGED dep_vars
    /\ UNCHANGED <<active_process, active_thread, stops>>
    /\ UNCHANGED beyond_debug

\* the processes stop_script calls terminate() on: line 1115
StopTargetsAllRunning == {d \in DebugIds : debugger[d].proc = "running"}
StopTargets ==
    IF active_process # 0 /\ debugger[active_process].proc = "running"
    THEN {active_process}
    ELSE {}

\* stop_script, lines 1113-1127; terminate() may raise
stop_script ==
    /\ stops < MaxStops
    /\ stops' = stops + 1
    /\ \E raises \in BOOLEAN :
          LET first == IF StopTargets = {} THEN <<>>
                       ELSE IF raises THEN <<FailedToTerminateLine>>
                       ELSE <<ScriptTerminatedLine>>
              second == IF active_thread # 0 THEN <<StoppingInitiatedLine>> ELSE <<>>
          IN /\ StopTargets = {} => ~raises
             /\ debugger' = [d \in DebugIds |->
                                IF d \in StopTargets /\ ~raises
                                THEN [debugger[d] EXCEPT !.proc = "terminated"]
                                ELSE debugger[d]]
             /\ active_process' = IF StopTargets = {} THEN active_process ELSE 0
             /\ output_panel' = AppendLines(output_panel, first \o second)
    /\ active_thread' = 0
    /\ UNCHANGED <<IMPORT_TO_PYPI, code, imported_packages, lookups, package_output_panel,
                   install_threads, task, job, ui_queue, progress_bar, error_log,
                   importable>>
    /\ UNCHANGED beyond_debug

\* the script that is run and debugged
DebuggedSources == {src \in OrchSources : ~src.blank /\ src.ok}

\* the program with one Run Code, the Debug button and the Stop button in use
NextStop ==
    \/ \E src \in DebuggedSources : task = <<>> /\ RunCode(src)
    \/ \E t \in TaskIds : TaskBegin(t)
    \/ \E t \in TaskIds : TaskSpawn(t)
    \/ \E t \in TaskIds : TaskNextThread(t)
    \/ \E t \in TaskIds : TaskWait(t)
    \/ \E t \in TaskIds : TaskClear(t)
    \/ \E t \in TaskIds : TaskAnnounce(t)
    \/ \E t \in TaskIds : TaskExecStart(t)
    \/ \E t \in TaskIds : TaskExecute(t)
    \/ \E j \in JobIds : JobStart(j)
    \/ \E j \in JobIds : JobReadLine(j)
    \/ \E j \in JobIds : JobReadRaise(j)
    \/ \E j \in JobIds : JobReadEOF(j)
    \/ \E j \in JobIds : JobWait(j)
    \/ \E j \in JobIds : JobReport(j)
    \/ \E j \in JobIds : DeliverSignal(j)
    \/ \E src \in DebuggedSources \cup {BlankSource} : run_debugger(src)
    \/ \E d \in DebugIds : DebugBegin(d)
    \/ \E d \in DebugIds : DebugPopen(d)
    \/ \E d \in DebugIds : DebugReadRaise(d)
    \/ \E d \in DebugIds : DebugProcExit(d)
    \/ stop_script

SpecStop == InitInstall /\ [][NextStop]_vars

(***************************************************************************)
(* Auto-save and backup_configuration                                      *)
(***************************************************************************)
\* str.lower() on the characters the model uses
UpperToLower ==
    [c \in {"A", "P", "Y", "T", "H", "O", "N"} |->
        CASE c = "A" -> "a" [] c = "P" -> "p" [] c = "Y" -> "y" [] c = "T" -> "t"
          [] c = "H" -> "h" [] c = "O" -> "o" [] c = "N" -> "n"]
Lower(c) == IF c \in DOMAIN UpperToLower THEN UpperToLower[c] ELSE c
lower(s) == [i \in 1..Len(s) |-> Lower(s[i])]

\* the top-level entries os.listdir(usb_drive) may return
PPythonName == <<"P", "P", "y", "t", "h", "o", "n">>
DriveEntries ==
    {PPythonName,
     <<"p", "p", "y", "t", "h", "o", "n">>,
     <<"P", "P", "y", "t", "h", "o", "n", "2">>,
     <<"d", "o", "c", "s">>}
Listings ==
    {l \in SeqsUpTo(DriveEntries, MaxEntries) :
        \A i, j \in 1..Len(l) : i # j => l[i] # l[j]}

UsbDrive == <<"E:/">>
BackupFolder == <<"F:/backup">>

\* line 817: item.lower() == "ppython"
IsPPythonExact(item) == item = <<"p", "p", "y", "t", "h", "o", "n">>
IsPPython(item) == lower(item) = <<"p", "p", "y", "t", "h", "o", "n">>

UsbNotSelectedLine == <<"USB drive not selected. Backup cancelled.">>
BackupNotSelectedLine == <<"Backup location not selected. Backup cancelled.">>
StartingBackupLine == <<"Starting backup process...">>
SkippedPPythonLine(item) == <<"Skipped 'PPython' folder: ">> \o item
SkippedHiddenLine(item) == <<"Skipped hidden or system file/folder: ">> \o item
BackedUpLine(item) == <<"Backed up ">> \o item \o <<" successfully.">>
FailedToBackUpLine(item) ==
    <<"Failed to back up ">> \o item \o <<": ", "[Errno 13] Permission denied">>
ExportingLine == <<"Exporting requirements.txt...">>
ExportedLine == <<"requirements.txt exported to ">> \o BackupFolder
FailedExportLine == <<"Failed to export requirements.txt.">>
FreezeStderrLine == <<"ERROR: pip freeze failed">>
FailedExportLogLine == <<"Failed to export requirements.txt: ", "ERROR: pip freeze failed">>
BackupCompletedLine == <<"Backup completed successfully.">>
BackupFailedLine == <<"Backup failed: ", "Traceback (most recent call last): ...">>

\* log_error(message, panel='package'), lines 766-793: the entry is written
\* and the notice shown, or open() fails and the failure is shown
LogErrorPackage(shown, message) ==
    \/ /\ error_log' = Append(error_log, message)
       /\ package_output_panel' = AppendLines(shown, <<LogNotice>>)
    \/ /\ error_log' = error_log
       /\ package_output_panel' = AppendLines(shown, <<LogFailure>>)

\* what the file operations leave alone
beyond_files == <<IMPORT_TO_PYPI, code, imported_packages, lookups, install_threads,
                  task, job, ui_queue, importable, install_vars, debug_vars,
                  editor_vars, console_vars, late_vars>>

\* backup_configuration, lines 795-815 and 860-866: the two folder dialogs,
\* the start of the backup and os.listdir; each return and the outer except
\* clause pass through finally: stop_progress()
backup_configuration ==
    /\ backup.pc = "idle"
    /\ backup.runs < MaxBackups
    /\ \/ /\ package_output_panel' = AppendLines(package_output_panel, <<UsbNotSelectedLine>>)
          /\ progress_bar' = FALSE
          /\ backup' = [backup EXCEPT !.runs = @ + 1]
          /\ UNCHANGED <<usb_drive, error_log>>
       \/ /\ usb_drive' = UsbDrive
          /\ package_output_panel' = AppendLines(package_output_panel, <<BackupNotSelectedLine>>)
          /\ progress_bar' = FALSE
          /\ backup' = [backup EXCEPT !.runs = @ + 1]
          /\ UNCHANGED error_log
       \/ /\ usb_drive' = UsbDrive
          /\ LogErrorPackage(AppendLines(EmptyBag, <<StartingBackupLine, BackupFailedLine>>),
                             BackupFailedLine)
          /\ progress_bar' = FALSE
          /\ backup' = [pc |-> "idle", listing |-> <<>>, next |-> 1,
                        hidden |-> {}, attempted |-> {}, failed |-> {},
                        runs |-> backup.runs + 1]
       \/ /\ usb_drive' = UsbDrive
          /\ package_output_panel' = AppendLines(EmptyBag, <<StartingBackupLine>>)
          /\ progress_bar' = TRUE
          /\ \E listing \in Listings :
                backup' = [pc |-> "copying", listing |-> listing, next |-> 1,
                           hidden |-> {}, attempted |-> {}, failed |-> {},
                           runs |-> backup.runs + 1]
          /\ UNCHANGED error_log
    /\ UNCHANGED <<output_panel, auto_saves, uncaught>>
    /\ UNCHANGED beyond_files

\* one iteration of the loop of lines 816-844; is_hidden_or_system (61-68)
\* answers for the entry, copytree / copy2 succeeds or raises
BackupItem ==
    /\ backup.pc = "copying"
    /\ backup.next <= Len(backup.listing)
    /\ LET item == backup.listing[backup.next]
       IN IF IsPPython(item)
          THEN /\ package_output_panel' =
                     AppendLines(package_output_panel, <<SkippedPPythonLine(item)>>)
               /\ backup' = [backup EXCEPT !.next = @ + 1]
               /\ UNCHANGED error_log
          ELSE \/ /\ package_output_panel' =
                        AppendLines(package_output_panel, <<SkippedHiddenLine(item)>>)
                  /\ backup' = [backup EXCEPT !.next = @ + 1, !.hidden = @ \cup {item}]
                  /\ UNCHANGED error_log
               \/ /\ package_output_panel' =
                        AppendLines(package_output_panel, <<BackedUpLine(item)>>)
                  /\ backup' = [backup EXCEPT !.next = @ + 1, !.attempted = @ \cup {item}]
                  /\ UNCHANGED error_log
               \/ /\ LogErrorPackage(AppendLines(package_output_panel,
                                                 <<FailedToBackUpLine(item)>>),
                                     FailedToBackUpLine(item))
                  /\ backup' = [backup EXCEPT !.next = @ + 1,
                                              !.attempted = @ \cup {item},
                                              !.failed = @ \cup {item}]
    /\ UNCHANGED <<output_panel, progress_bar, usb_drive, auto_saves, uncaught>>
    /\ UNCHANGED beyond_files

\* after the loop, lines 846-866: pip freeze is written to requirements.txt,
\* or exits with an error (CalledProcessError), or something else is raised
\* (the interpreter is not there, requirements.txt cannot be opened) and the
\* outer except clause reports it; finally: stop_progress()
BackupExport ==
    /\ backup.pc = "copying"
    /\ backup.next > Len(backup.listing)
    /\ \/ /\ package_output_panel' =
                AppendLines(package_output_panel,
                            <<ExportingLine, ExportedLine, BackupCompletedLine>>)
          /\ UNCHANGED error_log
       \/ /\ \/ /\ error_log' = Append(error_log, FailedExportLogLine)
                /\ package_output_panel' =
                      AppendLines(package_output_panel,
                                  <<ExportingLine, FailedExportLine, FreezeStderrLine,
                                    LogNotice, BackupCompletedLine>>)
             \/ /\ error_log' = error_log
                /\ package_output_panel' =
                      AppendLines(package_output_panel,
                                  <<ExportingLine, FailedExportLine, FreezeStderrLine,
                                    LogFailure, BackupCompletedLine>>)
       \/ LogErrorPackage(AppendLines(package_output_panel,
                                      <<ExportingLine, BackupFailedLine>>),
                          BackupFailedLine)
    /\ progress_bar' = FALSE
    /\ backup' = [backup EXCEPT !.pc = "idle"]
    /\ UNCHANGED <<output_panel, usb_drive, auto_saves, uncaught>>
    /\ UNCHANGED beyond_files

AutoSaveFolder(drive) ==
    IF drive # <<>> THEN drive \o <<"PPython/", "AutoSave">> ELSE <<"AutoSave">>
AutoSavedLine(drive) == <<"Auto-saved to backup file ">> \o AutoSaveFolder(drive)
AutoSaveFailedLine == <<"Failed to auto-save backup: ", "[Errno 13] Permission denied">>

\* auto_save_code, lines 539-564, the slot of the auto-save timer; src is the
\* editor's text.  current_file_path is never assigned, so the else branch of
\* line 552 is the one taken: os.makedirs (line 555) is outside the try
auto_save_code(src) ==
    /\ IF src.blank
       THEN UNCHANGED <<output_panel, auto_saves, uncaught>>
       ELSE /\ auto_saves < MaxSaves
            /\ auto_saves' = auto_saves + 1
            /\ \/ /\ uncaught' = uncaught \cup {"OSError"}
                  /\ UNCHANGED output_panel
               \/ /\ output_panel' = AppendLines(output_panel, <<AutoSavedLine(usb_drive)>>)
                  /\ UNCHANGED uncaught
               \/ /\ output_panel' = AppendLines(output_panel, <<AutoSaveFailedLine>>)
                  /\ UNCHANGED uncaught
    /\ UNCHANGED <<package_output_panel, progress_bar, error_log, usb_drive, backup>>
    /\ UNCHANGED beyond_files

\* the program with the auto-save timer and the backup button in use
NextFiles ==
    \/ backup_configuration
    \/ BackupItem
    \/ BackupExport
    \/ \E src \in DebuggedSources \cup {BlankSource} : auto_save_code(src)

SpecFiles == InitInstall /\ [][NextFiles]_vars

\* the program with Load Script and the auto-save timer in use
NextAutoSave ==
    \/ \E src \in OrchSources \ {BlankSource} : LoadCode(src)
    \/ \E t \in TaskIds : TaskBegin(t)
    \/ \E src \in DebuggedSources \cup {BlankSource} : auto_save_code(src)

SpecAutoSave == InitInstall /\ [][NextAutoSave]_vars

(***************************************************************************)
(* CodeEditor: search_text, replace_text, replace_all                      *)
(***************************************************************************)
\* A QTextDocument holds UTF-16 code units and QTextCursor positions count
\* them; toPlainText() gives a Python str, whose indices count code points.
\* A character outside the basic plane is two units and one code point.
HighSurrogate == "U+D83D"
LowSurrogate == "U+DE00"
Astral == "U+1F600"
CodePoints == {"a", "A", "b", Astral}

\* QString -> str
RECURSIVE toPlainText(_)
toPlainText(units) ==
    IF units = <<>> THEN <<>>
    ELSE IF Len(units) >= 2 /\ units[1] = HighSurrogate /\ units[2] = LowSurrogate
         THEN <<Astral>> \o toPlainText(SubSeq(units, 3, Len(units)))
         ELSE <<units[1]>> \o toPlainText(Tail(units))

\* str -> QString
RECURSIVE ToUnits(_)
ToUnits(text) ==
    IF text = <<>> THEN <<>>
    ELSE (IF Head(text) = Astral THEN <<HighSurrogate, LowSurrogate>> ELSE <<Head(text)>>)
         \o ToUnits(Tail(text))

\* the texts a user types or loads, and what is typed into the search and
\* replace fields
Documents == {u \in {ToUnits(t) : t \in SeqsUpTo(CodePoints, MaxDoc)} : Len(u) <= MaxDoc}
SearchTerms == {<<"a">>, <<"a", "b">>}
Replacements == {<<>>, <<"b">>, <<"a", "a">>}

\* re.compile(re.escape(term), re.IGNORECASE) matches at index s of text
MatchAt(text, term, s) ==
    /\ s + Len(term) <= Len(text)
    /\ \A i \in 1..Len(term) : Lower(text[s + i]) = Lower(term[i])

\* regex_pattern.search(text, pos): the start of the leftmost match at or
\* after pos, -1 for None
RECURSIVE RegexSearch(_, _, _)
RegexSearch(text, term, pos) ==
    IF pos + Len(term) > Len(text) THEN -1
    ELSE IF MatchAt(text, term, pos) THEN pos
    ELSE RegexSearch(text, term, pos + 1)

\* search_text, lines 347-399: what it returns and where it leaves
\* current_search_pos and the text cursor
RECURSIVE search_text(_, _, _, _)
search_text(units, term, pos, cur) ==
    LET start_pos == RegexSearch(toPlainText(units), term, pos)
        end_pos == start_pos + Len(term)
    IN IF start_pos >= 0
       THEN [result |-> TRUE, pos |-> end_pos,
             cursor |-> [anchor |-> start_pos, position |-> end_pos]]
       ELSE IF pos > 0
            THEN search_text(units, term, 0, cur)
            ELSE [result |-> FALSE, pos |-> pos, cursor |-> cur]

Min2(a, b) == IF a <= b THEN a ELSE b
Max2(a, b) == IF a >= b THEN a ELSE b

\* cursor.hasSelection() and cursor.selectedText()
hasSelection(cur) == cur.anchor # cur.position
selectedText(units, cur) ==
    toPlainText(SubSeq(units, Min2(cur.anchor, cur.position) + 1,
                       Max2(cur.anchor, cur.position)))

\* replace_text, lines 401-410: what it returns, the document and the cursor
replace_text(units, cur, term, text) ==
    IF hasSelection(cur) /\ selectedText(units, cur) = term
    THEN LET from == Min2(cur.anchor, cur.position)
             to == Max2(cur.anchor, cur.position)
             at == from + Len(ToUnits(text))
         IN [result |-> TRUE,
             document |-> SubSeq(units, 1, from) \o ToUnits(text)
                             \o SubSeq(units, to + 1, Len(units)),
             cursor |-> [anchor |-> at, position |-> at]]
    ELSE [result |-> FALSE, document |-> units, cursor |-> cur]

NotReplacing == [pc |-> "idle", term |-> <<>>, text |-> <<>>, original |-> <<>>]

\* what the editor operations leave alone
beyond_editor == <<dep_vars, install_vars, debug_vars, uncaught, file_vars,
                   console_vars, late_vars>>

\* text is loaded (load_code, line 968) or typed into the empty editor; the
\* cursor is at the start and current_search_pos keeps its value
setPlainText(units) ==
    /\ replacing.pc = "idle"
    /\ document = <<>>
    /\ units # <<>>
    /\ document' = units
    /\ cursor' = [anchor |-> 0, position |-> 0]
    /\ last_op' = [op |-> "edit", term |-> <<>>, result |-> TRUE]
    /\ UNCHANGED <<current_search_pos, replacing>>
    /\ UNCHANGED beyond_editor

\* perform_search, lines 1535-1538
perform_search(term) ==
    /\ replacing.pc = "idle"
    /\ LET r == search_text(document, term, current_search_pos, cursor)
       IN /\ current_search_pos' = r.pos
          /\ cursor' = r.cursor
          /\ last_op' = [op |-> "search", term |-> term, result |-> r.result]
    /\ UNCHANGED <<document, replacing>>
    /\ UNCHANGED beyond_editor

\* perform_replace, lines 1540-1544
perform_replace(term, text) ==
    /\ replacing.pc = "idle"
    /\ LET r == replace_text(document, cursor, term, text)
       IN /\ Len(r.document) <= MaxDoc
          /\ document' = r.document
          /\ cursor' = r.cursor
          /\ last_op' = [op |-> "replace", term |-> term, result |-> r.result]
    /\ UNCHANGED <<current_search_pos, replacing>>
    /\ UNCHANGED beyond_editor

\* perform_replace_all and replace_all lines 416-418: the cursor is moved to
\* the start; current_search_pos is not reset
perform_replace_all(term, text) ==
    /\ replacing.pc = "idle"
    /\ cursor' = [anchor |-> 0, position |-> 0]
    /\ replacing' = [pc |-> "loop", term |-> term, text |-> text, original |-> document]
    /\ last_op' = [op |-> "replace_all", term |-> term, result |-> TRUE]
    /\ UNCHANGED <<document, current_search_pos>>
    /\ UNCHANGED beyond_editor

\* one evaluation of the loop condition of line 420 and, when it is true, one
\* execution of the body, line 421
ReplaceAllStep ==
    /\ replacing.pc = "loop"
    /\ LET s == search_text(document, replacing.term, current_search_pos, cursor)
           r == replace_text(document, s.cursor, replacing.term, replacing.text)
       IN /\ current_search_pos' = s.pos
          /\ IF s.result
             THEN /\ Len(r.document) <= MaxDoc
                  /\ document' = r.document
                  /\ cursor' = r.cursor
                  /\ UNCHANGED <<replacing, last_op>>
             ELSE /\ cursor' = s.cursor
                  /\ replacing' = [replacing EXCEPT !.pc = "idle"]
                  /\ last_op' = [last_op EXCEPT !.result = FALSE]
                  /\ UNCHANGED document
    /\ UNCHANGED beyond_editor

\* the program with the editor and its search bar in use
NextEditor ==
    \/ \E units \in Documents : setPlainText(units)
    \/ \E term \in SearchTerms : perform_search(term)
    \/ \E term \in SearchTerms, text \in Replacements : perform_replace(term, text)
    \/ \E term \in SearchTerms, text \in Replacements : perform_replace_all(term, text)
    \/ ReplaceAllStep

SpecEditor == InitInstall /\ [][NextEditor]_vars

\* replace_all runs in the UI thread without waiting for anything: its loop
\* takes its next step whenever it has one
SpecEditorFair == SpecEditor /\ WF_vars(ReplaceAllStep)

(***************************************************************************)
(* read_debug_output.send_input and the debug console                      *)
(***************************************************************************)
\* the k-th command the user types into the debug console
Command(k) == <<"p ", LineNumber[k]>>
SentCommandLine(command) == <<"Sent command: ">> \o command
FailedToSendLine == <<"Failed to send command: ", "[Errno 32] Broken pipe">>

\* what the send_input threads never touch
beyond_console == <<IMPORT_TO_PYPI, code, imported_packages, lookups, package_output_panel,
                    install_threads, task, job, ui_queue, progress_bar, importable,
                    install_vars, debug_vars, uncaught, file_vars, editor_vars,
                    late_vars>>

\* the user types a command into the empty debug console
TypeCommand ==
    /\ typed < MaxCommands
    /\ debug_console = <<>>
    /\ debug_console' = Command(typed + 1)
    /\ typed' = typed + 1
    /\ UNCHANGED <<command_in_progress, sender, written, output_panel, error_log>>
    /\ UNCHANGED beyond_console

\* the send_input thread of session d runs while its process does, line 1698
Sending(d) ==
    /\ d \in DebugIds
    /\ debugger[d].proc = "running"

\* line 1699: the flag is read and found clear
SendPoll(d) ==
    /\ Sending(d)
    /\ sender[d].pc = "poll"
    /\ ~command_in_progress
    /\ sender' = [sender EXCEPT ![d].pc = "read"]
    /\ UNCHANGED <<command_in_progress, debug_console, typed, written, output_panel,
                   error_log>>
    /\ UNCHANGED beyond_console

\* lines 1700-1701: the console's text is read
SendRead(d) ==
    /\ sender[d].pc = "read"
    /\ sender' = [sender EXCEPT ![d] =
                     IF debug_console # <<>>
                     THEN [pc |-> "set", command |-> debug_console]
                     ELSE [pc |-> "poll", command |-> <<>>]]
    /\ UNCHANGED <<command_in_progress, debug_console, typed, written, output_panel,
                   error_log>>
    /\ UNCHANGED beyond_console

\* line 1702
SendSet(d) ==
    /\ sender[d].pc = "set"
    /\ command_in_progress' = TRUE
    /\ sender' = [sender EXCEPT ![d].pc = "write"]
    /\ UNCHANGED <<debug_console, typed, written, output_panel, error_log>>
    /\ UNCHANGED beyond_console

\* lines 1703-1712: the command is written to the process's standard input,
\* the console is cleared and the command is shown; or the write raises
\* because the process has ended meanwhile
SendWrite(d) ==
    /\ sender[d].pc = "write"
    /\ IF debugger[d].proc = "running"
       THEN /\ written' = Append(written, [process |-> d, command |-> sender[d].command])
            /\ debug_console' = <<>>
            /\ output_panel' = AppendLines(output_panel,
                                           <<SentCommandLine(sender[d].command)>>)
            /\ UNCHANGED error_log
       ELSE /\ \/ /\ error_log' = Append(error_log, FailedToSendLine)
                  /\ output_panel' = AppendLines(output_panel, <<FailedToSendLine, LogNotice>>)
               \/ /\ error_log' = error_log
                  /\ output_panel' = AppendLines(output_panel, <<FailedToSendLine, LogFailure>>)
            /\ UNCHANGED <<written, debug_console>>
    /\ sender' = [sender EXCEPT ![d] = [pc |-> "poll", command |-> <<>>]]
    /\ UNCHANGED <<command_in_progress, typed>>
    /\ UNCHANGED beyond_console

\* the program with the Debug button and the debug console in use
NextDebug ==
    \/ \E src \in DebuggedSources : run_debugger(src)
    \/ \E d \in DebugIds : DebugBegin(d)
    \/ \E d \in DebugIds : DebugPopen(d)
    \/ \E d \in DebugIds : DebugReadRaise(d)
    \/ \E d \in DebugIds : DebugProcExit(d)
    \/ TypeCommand
    \/ \E d \in DebugIds : SendPoll(d)
    \/ \E d \in DebugIds : SendRead(d)
    \/ \E d \in DebugIds : SendSet(d)
    \/ \E d \in DebugIds : SendWrite(d)

SpecDebug == InitInstall /\ [][NextDebug]_vars

(***************************************************************************)
(* closeEvent                                                              *)
(***************************************************************************)
ExitTerminatedLine == <<"Script terminated by user during exit.">>
ExitFailedLine ==
    <<"Failed to terminate process during exit: ", "[WinError 5] Access is denied">>
ExitCancelledLine == <<"Exit cancelled; script is still running.">>

\* line 1483: self.active_process and self.active_process.poll() is None
StillRunning == active_process # 0 /\ debugger[active_process].proc = "running"

\* event.accept() / event.ignore(), lines 1493, 1496, 1498
CloseOutcomeUnlessRaised(running, reply, raised) ==
    IF running /\ (reply = "No" \/ raised) THEN "ignored" ELSE "accepted"
CloseOutcome(running, reply, raised) ==
    IF running
    THEN IF reply = "Yes" THEN "accepted" ELSE "ignored"
    ELSE "accepted"

\* the window is still there: no close has been accepted
WindowOpen == \A i \in 1..Len(closing) : closing[i].event # "accepted"

\* closeEvent, lines 1482-1498; reply is the user's answer to the question,
\* terminate() may raise
closeEvent(reply) ==
    /\ Len(closing) < MaxCloses
    /\ WindowOpen
    /\ \E raised \in BOOLEAN :
          /\ (~StillRunning \/ reply = "No") => ~raised
          /\ closing' = Append(closing,
                [reply    |-> IF StillRunning THEN reply ELSE "none",
                 attempts |-> IF StillRunning /\ reply = "Yes" THEN 1 ELSE 0,
                 raised   |-> raised,
                 event    |-> CloseOutcome(StillRunning, reply, raised)])
          /\ debugger' = IF StillRunning /\ reply = "Yes" /\ ~raised
                         THEN [debugger EXCEPT ![active_process].proc = "terminated"]
                         ELSE debugger
          /\ output_panel' =
                IF ~StillRunning THEN output_panel
                ELSE IF reply = "No" THEN AppendLines(output_panel, <<ExitCancelledLine>>)
                ELSE IF raised THEN AppendLines(output_panel, <<ExitFailedLine>>)
                ELSE AppendLines(output_panel, <<ExitTerminatedLine>>)
    /\ UNCHANGED <<IMPORT_TO_PYPI, code, imported_packages, lookups, package_output_panel,
                   install_threads, task, job, ui_queue, progress_bar, error_log,
                   importable>>
    /\ UNCHANGED <<active_process, active_thread, stops>>
    /\ UNCHANGED <<install_vars, uncaught, file_vars, editor_vars, console_vars,
                   startup, pipes>>

\* the program with the Debug and Stop buttons in use and the window being
\* closed
NextClose ==
    \/ \E src \in DebuggedSources : WindowOpen /\ run_debugger(src)
    \/ \E d \in DebugIds : DebugBegin(d)
    \/ \E d \in DebugIds : DebugPopen(d)
    \/ \E d \in DebugIds : DebugReadRaise(d)
    \/ \E d \in DebugIds : DebugProcExit(d)
    \/ WindowOpen /\ stop_script
    \/ \E reply \in {"Yes", "No"} : closeEvent(reply)

SpecClose == InitInstall /\ [][NextClose]_vars

(***************************************************************************)
(* InstallPackageThread.run and its pip process, with pipes of bounded     *)
(* capacity                                                                *)
(***************************************************************************)
\* what a pip process does: a sequence of writes, each of one line to its
\* standard output or to its standard error, then it closes both and exits
PipPrograms == SeqsUpTo({"stdout", "stderr"}, MaxProgram)

beyond_pipes == <<dep_vars, install_vars, debug_vars, uncaught, file_vars, editor_vars,
                  console_vars, closing, startup>>

\* lines 87-93: Popen with stdout=PIPE and stderr=PIPE
PipeStart(program) ==
    /\ pipes.pc = "idle"
    /\ pipes' = [pc |-> "reading", program |-> program, stdout |-> 0, stderr |-> 0]
    /\ UNCHANGED beyond_pipes

\* the pip process writes its next line; write() blocks while the pipe is full
ProcWrite ==
    /\ pipes.pc # "idle"
    /\ pipes.program # <<>>
    /\ pipes[Head(pipes.program)] < PipeCapacity
    /\ pipes' = [pipes EXCEPT ![Head(pipes.program)] = @ + 1, !.program = Tail(@)]
    /\ UNCHANGED beyond_pipes

\* lines 96-99: readline returns a line of standard output
PipeReadLine ==
    /\ pipes.pc = "reading"
    /\ pipes.stdout > 0
    /\ pipes' = [pipes EXCEPT !.stdout = @ - 1]
    /\ UNCHANGED beyond_pipes

\* lines 96 and 101: readline returns '' when the pipe is empty and the
\* process has closed its end
PipeReadEOF ==
    /\ pipes.pc = "reading"
    /\ pipes.stdout = 0
    /\ pipes.program = <<>>
    /\ pipes' = [pipes EXCEPT !.pc = "waiting"]
    /\ UNCHANGED beyond_pipes

\* line 102: process.wait() returns when the process has exited
PipeWait ==
    /\ pipes.pc = "waiting"
    /\ pipes.program = <<>>
    /\ pipes' = [pipes EXCEPT !.pc = "stderr"]
    /\ UNCHANGED beyond_pipes

\* lines 105-110: standard error is read to its end and the final signal is
\* emitted
PipeReadStderr ==
    /\ pipes.pc = "stderr"
    /\ pipes' = [pipes EXCEPT !.pc = "finished", !.stderr = 0]
    /\ UNCHANGED beyond_pipes

NextPipes ==
    \/ \E program \in PipPrograms : PipeStart(program)
    \/ ProcWrite
    \/ PipeReadLine
    \/ PipeReadEOF
    \/ PipeWait
    \/ PipeReadStderr

SpecPipes == InitInstall /\ [][NextPipes]_vars

\* the job's thread and the pip process both run whenever they are not
\* blocked
SpecPipesFair ==
    /\ SpecPipes
    /\ WF_vars(ProcWrite)
    /\ WF_vars(PipeReadLine)
    /\ WF_vars(PipeReadEOF)
    /\ WF_vars(PipeWait)
    /\ WF_vars(PipeReadStderr)

(***************************************************************************)
(* MainWindow.__init__, load_python_path, save_python_path and             *)
(* select_python_folder                                                    *)
(***************************************************************************)
PythonFolders == {"D:/Python311", "E:/tools"}

\* what a folder is on the disk: not there, there without a python.exe, or
\* there with one
FolderKinds == {"missing", "empty", "python"}

\* config/python_path.json: not there, not readable as {"python_path": ...},
\* or naming a folder
ConfigFiles == {"absent", "corrupt"} \cup PythonFolders

beyond_startup == <<dep_vars, install_vars, debug_vars, uncaught, file_vars, editor_vars,
                    console_vars, closing, pipes>>

\* lines 476-487: python_executable = None, then select_python_folder is
\* called on whatever disk and configuration file the application finds
MainWindowInit(disk, config, writable) ==
    /\ startup.pc = "init"
    /\ startup' = [pc |-> "select", disk |-> disk, config |-> config, writable |-> writable,
                   python_executable |-> <<>>, checked |-> FALSE, asked |-> 0]
    /\ UNCHANGED beyond_startup

\* lines 52-59: the saved path, <<>> for None; json.load or Path(None) raises
\* on a file that does not hold a path
LoadRaises(config) == config = "corrupt"

load_python_path(config) == IF config \in PythonFolders THEN <<config>> ELSE <<>>

\* lines 1502-1510 and 1532-1533: the saved folder is used when it exists,
\* python.exe in it is not looked at; an exception is printed and the call
\* returns
SelectSaved ==
    /\ startup.pc = "select"
    /\ LET saved == load_python_path(startup.config)
       IN  IF LoadRaises(startup.config)
               THEN startup' = [startup EXCEPT !.pc = "done"]
           ELSE IF saved # <<>> /\ startup.disk[saved[1]] # "missing"
               THEN startup' = [startup EXCEPT !.pc = "done",
                                               !.python_executable = saved,
                                               !.checked = FALSE]
           ELSE startup' = [startup EXCEPT !.pc = "dialog"]
    /\ UNCHANGED beyond_startup

\* lines 1513-1531: the folder dialog returns an existing folder, or nothing
\* when it is cancelled
SelectDialog(python_folder) ==
    /\ startup.pc = "dialog"
    /\ python_folder # <<>> => startup.disk[python_folder[1]] # "missing"
    /\ IF python_folder = <<>>
           \* lines 1529-1531: sys.exit(1)
           THEN startup' = [startup EXCEPT !.pc = "exited"]
       ELSE IF startup.disk[python_folder[1]] = "python"
           \* lines 1516-1525: save_python_path may raise before the
           \* attributes are assigned
           THEN IF startup.writable
                    THEN startup' = [startup EXCEPT !.pc = "done",
                                                    !.config = python_folder[1],
                                                    !.python_executable = python_folder,
                                                    !.checked = TRUE]
                    ELSE startup' = [startup EXCEPT !.pc = "done"]
       \* lines 1526-1528: the message box, then select_python_folder again
       ELSE /\ startup.asked < MaxDialogs
            /\ startup' = [startup EXCEPT !.pc = "select", !.asked = @ + 1]
    /\ UNCHANGED beyond_startup

NextStartup ==
    \/ \E disk \in [PythonFolders -> FolderKinds], config \in ConfigFiles, writable \in BOOLEAN :
           MainWindowInit(disk, config, writable)
    \/ SelectSaved
    \/ \E python_folder \in {<<>>} \cup {<<f>> : f \in PythonFolders} : SelectDialog(python_folder)

SpecStartup == InitInstall /\ [][NextStartup]_vars

(***************************************************************************)
(* Claims about the extractor and the resolver                             *)
(***************************************************************************)
Called == imported_packages # NotCalled

\* every node of the syntax tree, whatever the traversal order
RECURSIVE NodesOf(_)
NodesOf(body) ==
    IF body = <<>> THEN {}
    ELSE {Head(body)} \cup NodesOf(Head(body).body) \cup NodesOf(Tail(body))

FirstSegment(name) == name[1]

\* C1 (as claimed): for a source that parses, the result is exactly the first
\* dotted segments of the direct imports and of the absolute from-imports
\* (level 0) found anywhere in the tree, and nothing else.
C1_ExactlyDirectAndAbsoluteImports ==
    (Called /\ code.ok) =>
        Range(imported_packages) =
            UNION {{FirstSegment(n.names[i]) : i \in 1..Len(n.names)} :
                      n \in {m \in NodesOf(code.body) : m.type = "Import"}}
            \cup {FirstSegment(n.module) :
                      n \in {m \in NodesOf(code.body) :
                                m.type = "ImportFrom" /\ m.level = 0}}

Reorderings(body) ==
    {[i \in 1..Len(body) |-> body[p[i]]] : p \in Permutations(1..Len(body))}

Repetitions(body) ==
    {body \o body} \cup {body \o <<body[i]>> : i \in 1..Len(body)}
                   \cup {<<body[i]>> \o body : i \in 1..Len(body)}

\* C2: the returned list has no duplicate, and as a set it is the set extracted
\* from every reordering and every repetition of the import statements.
C2_SetInvariantUnderReordering ==
    Called =>
        /\ \A i, j \in 1..Len(imported_packages) :
              imported_packages[i] = imported_packages[j] => i = j
        /\ \A b \in Reorderings(code.body) \cup Repetitions(code.body) :
              ExtractedSet([code EXCEPT !.body = b]) = Range(imported_packages)

\* a call on two different statements that import the same module twice
C2_Witness ==
    /\ Called
    /\ Len(code.body) = 2
    /\ code.body[1] # code.body[2]
    /\ code.body[1].type = "Import" /\ Len(code.body[1].names) = 2
    /\ code.body[2].type = "ImportFrom" /\ code.body[2].level = 0
    /\ Len(imported_packages) = 1

\* C3 (as claimed): a source whose only imports are relative from-imports
\* (level >= 1) yields the empty result.
C3_RelativeImportsContributeNothing ==
    (/\ Called
     /\ code.ok
     /\ \A n \in NodesOf(code.body) :
           n.type \in {"Import", "ImportFrom"} => (n.type = "ImportFrom" /\ n.level >= 1))
        => imported_packages = <<>>

\* C5: the resolver returns the table value for PIL and yaml and the name
\* itself for every other name, and the table is never modified.
C5_ResolverTotalAndIdentityOutsideTable ==
    /\ DOMAIN IMPORT_TO_PYPI = {"PIL", "yaml"}
    /\ IMPORT_TO_PYPI["PIL"] = "Pillow"
    /\ IMPORT_TO_PYPI["yaml"] = "PyYAML"
    /\ \A i \in 1..Len(lookups) :
          lookups[i][2] = CASE lookups[i][1] = "PIL" -> "Pillow"
                            [] lookups[i][1] = "yaml" -> "PyYAML"
                            [] OTHER -> lookups[i][1]

C5_Witness ==
    /\ Len(lookups) = 3
    /\ lookups[1] = <<"PIL", "Pillow">>
    /\ lookups[2] = <<"os", "os">>
    /\ lookups[3] = <<"yaml", "PyYAML">>

(***************************************************************************)
(* Claims about the orchestrator and the install jobs                      *)
(***************************************************************************)
SyntaxErrorLine == <<"Syntax error while parsing imports: ", "invalid syntax">>

InCheck(t) == t.pc \in {"begin", "spawn"}
PastCheck(t) == t.pc \in {"iterate", "wait", "clear", "announce", "execute", "communicate"}

\* C4 (as claimed): a syntax error reaches the caller as an error, so a task
\* whose source does not parse never goes on as if the import set were empty:
\* it is at its start or in its error handler.
C4_ParseErrorReachesCaller ==
    \A t \in TaskIds : ~task[t].code.ok => task[t].pc \in {"begin", "except"}

\* C4 (amended): the extractor itself catches the syntax error.  The step that
\* extracts from a source that does not parse shows the line "Syntax error
\* while parsing imports: ..." on the output panel and writes it to the log,
\* starts no job, raises nothing, and the caller goes on as for a source
\* without imports ("All required packages are already installed.").
C4_SyntaxErrorCaughtByExtractor ==
    [][\A t \in TaskIds :
          (task[t].pc = "begin" /\ ~task[t].code.ok /\ task'[t] # task[t]) =>
              /\ Shows(output_panel', SyntaxErrorLine)
              /\ Shows(output_panel', AllInstalledLine)
              /\ Len(error_log') = Len(error_log) + 1
              /\ error_log'[Len(error_log')] = SyntaxErrorLine
              /\ job' = job
              /\ task'[t].pc = IF task[t].kind = "run" THEN "iterate" ELSE "done"]_vars

C4_Witness ==
    \E t \in TaskIds :
        /\ ~task[t].code.ok
        /\ task[t].pc = "execute"
        /\ Shows(output_panel, SyntaxErrorLine)
        /\ Shows(output_panel, AnnounceLine)
        /\ job = <<>>

JobsOfTask(jobs, t) == {j \in 1..Len(jobs) : jobs[j].owner = t}

Distribution(name) ==
    CASE name = "PIL" -> "Pillow"
      [] name = "yaml" -> "PyYAML"
      [] OTHER -> name

C7_AnnounceAfterOwnJobsFinished ==
    \A t \in TaskIds :
        task[t].pc = "execute" =>
            \A j \in JobsOfTask(job, t) : job[j].pc = "finished"

FinalTexts ==
    {"Successfully installed: ", "Skipping installation of ", "Unexpected error installing "}

FinalsOf(emitted) == {i \in 1..Len(emitted) : emitted[i].line[1] \in FinalTexts}

\* C8 (as claimed): a job makes at most one final emission, exactly one once
\* its run() has returned, the emission is its last one, it reports success
\* only for return code 0, and it is made only when the job's pip process has
\* exited (or could not be started at all).
C8_OneFinalEmissionAfterExit ==
    \A j \in JobIds :
        LET finals == FinalsOf(job[j].emitted)
        IN /\ Cardinality(finals) <= 1
           /\ job[j].pc = "finished" <=> Cardinality(finals) = 1
           /\ \A i \in finals :
                 /\ i = Len(job[j].emitted)
                 /\ job[j].emitted[i].line[1] = "Successfully installed: "
                       => (job[j].proc = "exited" /\ job[j].exit.returncode = 0)
           /\ finals # {} => job[j].proc \in {"exited", "not started"}

\* s occurs in line as a contiguous part
Contains(line, s) ==
    \E i \in 1..(Len(line) - Len(s) + 1) : SubSeq(line, i, i + Len(s) - 1) = s

\* some line on the package panel carries the text
ShownText(s) == \E line \in BagToSet(package_output_panel) : Contains(line, s)

\* C9 (as claimed): once a job has ended with a non-zero exit status and
\* non-empty stderr and the UI thread has handled all its queued signals, the
\* stderr text has been delivered: it is on the package output panel.
C9_StderrDeliveredAsErrorPayload ==
    \A j \in JobIds :
        (/\ job[j].pc = "finished"
         /\ job[j].proc = "exited"
         /\ job[j].exit.returncode # 0
         /\ job[j].exit.stderr # <<>>
         /\ ui_queue[j] = <<>>)
            => ShownText(Strip(job[j].exit.stderr))

\* non-zero exit, or an exception while starting the process
Failed(j) ==
    /\ job[j].pc = "finished"
    /\ \/ job[j].proc = "not started"
       \/ job[j].proc = "exited" /\ job[j].exit.returncode # 0

PendingLines(j) == {ui_queue[j][i].line : i \in 1..Len(ui_queue[j])}

Reported(j, line) == line \in PendingLines(j) \/ Shows(package_output_panel, line)

Raised(j) ==
    \E i \in 1..Len(job[j].emitted) :
        job[j].emitted[i].line[1] = "Unexpected error installing "

\* C10: when a job of a batch has failed, every sibling job of the batch has
\* still been started, each progress line a sibling has emitted is on its way
\* to or on the package panel, a sibling that ended with return code 0 (and
\* raised nothing itself) has its success line reported, and no task is in
\* its exception handler because of a job (only because a probe raised).
C10_FailureDoesNotAffectSiblings ==
    /\ \A j, k \in JobIds :
          (j # k /\ job[j].owner = job[k].owner /\ Failed(j)) =>
              /\ \A i \in 1..Len(job[k].emitted) :
                    job[k].emitted[i].signal = "progress_signal"
                       => Reported(k, job[k].emitted[i].line)
              /\ (job[k].pc = "finished" /\ job[k].proc = "exited"
                     /\ job[k].exit.returncode = 0 /\ ~Raised(k))
                    => Reported(k, <<"Successfully installed: ", job[k].package>>)
    /\ \A t \in TaskIds :
          /\ PastCheck(task[t]) =>
                Cardinality(JobsOfTask(job, t)) =
                   Cardinality({n \in ExtractedSet(task[t].code) :
                                   importable[n] = "ImportError"})
          /\ task[t].pc = "except" =>
                \E n \in ExtractedSet(task[t].code) : importable[n] = "Exception"

C10_Witness ==
    \E j, k \in JobIds :
        /\ j # k
        /\ job[j].owner = job[k].owner
        /\ Failed(j)
        /\ job[k].pc = "finished"
        /\ job[k].exit.returncode = 0
        /\ Shows(package_output_panel, <<"Successfully installed: ", job[k].package>>)

(***************************************************************************)
(* Claims about install_package, stop_script and the threads               *)
(***************************************************************************)
\* a line that a pip process wrote (it carries the number of the line)
IsProcessLine(line) == \E p \in 1..Len(line) : line[p] \in Range(LineNumber)

\* the place of the line in what the process wrote
LineIndexOf(line) ==
    CHOOSE k \in 1..Len(LineNumber) : \E p \in 1..Len(line) : line[p] = LineNumber[k]

\* C11 (as claimed): of the lines a job's process wrote, one written earlier
\* is never shown on the job's sink after one written later.
C11_LinesDeliveredInEmissionOrder ==
    \A a, b \in 1..Len(install_output) :
        (/\ a < b
         /\ install_output[a].thread = install_output[b].thread
         /\ install_thread[install_output[a].thread].async
         /\ IsProcessLine(install_output[a].line)
         /\ IsProcessLine(install_output[b].line))
            => LineIndexOf(install_output[a].line) < LineIndexOf(install_output[b].line)

C13_PanelsChangedOnlyByUIThread ==
    [][(\/ output_panel' # output_panel
        \/ package_output_panel' # package_output_panel
        \/ progress_bar' # progress_bar)
          => /\ \A t \in TaskIds : task'[t] = task[t]
             /\ job' = job]_vars

\* C14 (as claimed): a probe whose import fails at import time for any reason
\* counts as missing: when a call of check_and_install_missing_packages is
\* over, it has started one job for every extracted name whose import did not
\* succeed, whatever the import raised, and none for the others.
C14_ProbeFailureTreatedAsMissing ==
    [][\A t \in TaskIds :
          (InCheck(task[t]) /\ ~InCheck(task'[t])) =>
              \A n \in ExtractedSet(task[t].code) :
                  Cardinality({j \in JobsOfTask(job', t) : job'[j].import_name = n})
                     = IF importable[n] = "ok" THEN 0 ELSE 1]_vars

\* C18 (as claimed): when a run_code task announces 'All missing packages
\* installed. Executing the code...' and goes on to execute the script, no
\* install job of that run has ended with a non-zero exit or an exception.
C18_AnnouncedOnlyAfterSuccessfulInstalls ==
    [][\A t \in TaskIds :
          (task[t].pc = "announce" /\ task'[t].pc = "execute") =>
              \A j \in JobsOfTask(job, t) : ~Failed(j) /\ ~Raised(j)]_vars

\* C16: no install is retried.  Within one call of
\* check_and_install_missing_packages at most one job exists per requested
\* package, a job starts its pip process at most once (a process that exited
\* or could not be started is never started again, and a finished job stays
\* finished), and one install_package call starts at most one pip process.
C16_NoInstallRetried ==
    [][/\ \A j, k \in 1..Len(job') :
             (j # k /\ job'[j].owner = job'[k].owner)
                => job'[j].package # job'[k].package
       /\ \A j \in JobIds :
             /\ job[j].proc = "running" => job'[j].proc \in {"running", "exited"}
             /\ job[j].proc \in {"exited", "not started"} => job'[j].proc = job[j].proc
             /\ job[j].pc = "finished" => job'[j] = job[j]
       /\ \A i \in 1..Len(install_thread') : install_thread'[i].popens <= 1
       /\ \A i \in InstallIds :
             /\ install_thread'[i].popens >= install_thread[i].popens
             /\ install_thread[i].pc \in {"finished", "raised"}
                   => install_thread'[i] = install_thread[i]]_vars

\* a job whose pip failed and an install_package call whose Popen raised have
\* both ended, each having started pip once at most
C16_Witness ==
    /\ \E j \in JobIds : Failed(j) /\ ui_queue[j] = <<>>
    /\ \E i \in InstallIds :
          /\ install_thread[i].pc = "finished"
          /\ install_thread[i].popens = 1
          /\ install_thread[i].program = <<>>
          /\ install_queue[i] = <<>>

(***************************************************************************)
(* Claims about the file operations and the editor's search                *)
(***************************************************************************)
\* C15 (as claimed): no failure of an external action escapes the operation
\* that performed it: no exception is ever left uncaught.
C15_NoFailureEscapes == uncaught = {}

\* the entry is named PPython, whatever the case of its letters
NamedPPython(item) ==
    /\ Len(item) = Len(PPythonName)
    /\ \A i \in 1..Len(item) : Lower(item[i]) = Lower(PPythonName[i])

RECURSIVE ReplaceEvery(_, _, _)
ReplaceEvery(text, term, replacement) ==
    IF text = <<>> THEN <<>>
    ELSE IF MatchAt(text, term, 0)
         THEN replacement \o ReplaceEvery(SubSeq(text, Len(term) + 1, Len(text)),
                                          term, replacement)
         ELSE <<Head(text)>> \o ReplaceEvery(Tail(text), term, replacement)

\* C19 (as claimed): when replace_all returns, the editor's text is the
\* original text with every occurrence of the search term replaced.
C19_ReplaceAllReplacesEveryOccurrence ==
    [][(replacing.pc = "loop" /\ replacing'.pc = "idle") =>
          toPlainText(document') =
             ReplaceEvery(toPlainText(replacing.original), replacing.term,
                          replacing.text)]_vars

\* where the matches of term start in text, and the cursor position of a
\* text index
Matches(text, term) == {s \in 0..Len(text) : MatchAt(text, term, s)}
Least(S) == CHOOSE s \in S : \A x \in S : s <= x
UnitOffset(text, k) == Len(ToUnits(SubSeq(text, 1, k)))

\* C20 (as claimed): search_text returns False exactly when the document has
\* no match; and a call that follows a successful call with the same term on
\* the unchanged document selects the first match starting at or after the
\* end of the previous match, or the first match of the document when there
\* is none.
C20_SearchVisitsMatchesInOrder ==
    [][last_op'.op = "search" =>
          LET text == toPlainText(document)
              term == last_op'.term
              all == Matches(text, term)
              later == {s \in all : s >= current_search_pos}
              first == Least(IF later # {} THEN later ELSE all)
          IN /\ last_op'.result <=> all # {}
             /\ (last_op.op = "search" /\ last_op.result /\ last_op.term = term)
                   => cursor' = [anchor   |-> UnitOffset(text, first),
                                 position |-> UnitOffset(text, first + Len(term))]]_vars

(***************************************************************************)
(* Claims about concurrent tasks, the debugger, the pipes and the startup  *)
(***************************************************************************)
\* C24 (as claimed): under every interleaving of two orchestrator runs that
\* share install_threads, a run_code task that is executing its script has
\* no job of its own call still running, and a job leaves install_threads
\* only when its thread has finished (so that a wait on it has returned).
C24_SharedListKeepsRunsApart ==
    [][/\ \A t \in TaskIds :
             task'[t].pc \in {"execute", "communicate"} =>
                \A j \in JobsOfTask(job', t) : job'[j].pc = "finished"
       /\ \A i \in 1..Len(install_threads) :
             install_threads[i] \notin Range(install_threads')
                => job[install_threads[i]].pc = "finished"]_vars

\* C28 (as claimed): the progress bar is visible whenever a run_code task
\* has shown it and has not yet reached its own stop_progress.
C28_ProgressVisibleWhileTaskRuns ==
    \A t \in TaskIds :
        (task[t].kind = "run" /\ task[t].pc # "begin") => progress_bar

PleaseEnterLine == <<"Please enter a valid package name or set the Python executable.">>

\* C22 (as claimed): install_package called with a blank package name starts
\* no process and no thread, shows 'Please enter a valid package name or set
\* the Python executable.' and raises nothing.
C22_BlankNameReportedWithoutRaising ==
    \A i \in InstallIds :
        ~NonBlank(install_thread[i].package) =>
            /\ install_thread[i].popens = 0
            /\ install_thread[i].pc = "finished"
            /\ \E k \in 1..Len(install_output) :
                  install_output[k] = [thread |-> i, line |-> PleaseEnterLine]
            /\ "UnboundLocalError" \notin uncaught

\* C25 (as claimed): replace_all terminates: a call that has entered its loop
\* returns.
C25_ReplaceAllTerminates == (replacing.pc = "loop") ~> (replacing.pc = "idle")

\* C21 (as claimed): while a script file is open (load_code has loaded one)
\* an auto-save with text in the editor writes to that file, never to a new
\* file in the AutoSave folder; and an auto-save writes nothing when the
\* editor is blank.
C21_AutoSaveWritesToOpenFile ==
    [][(auto_saves' # auto_saves /\ Shows(output_panel, LoadedLine)) =>
          CopiesIn(AutoSavedLine(usb_drive), output_panel')
             = CopiesIn(AutoSavedLine(usb_drive), output_panel)]_vars

\* C26 (as claimed): each command typed into the debug console is written to
\* one debugger process, once; and, as no '(Pdb)' line has been read, no
\* second command has been written after the first.
C26_OneCommandPerPrompt ==
    /\ \A i, k \in 1..Len(written) :
          i # k => written[i].command # written[k].command
    /\ Len(written) <= 1

\* C23: a closeEvent call ignores the event exactly when the tracked process
\* is still running and the user answers No, and then it terminates nothing;
\* in every other case it accepts; after the answer Yes it has called
\* terminate() once, on the tracked process only, and accepts also when the
\* call raised.
C23_CloseIgnoredOnlyOnNo ==
    [][Len(closing') = Len(closing) + 1 =>
          LET c == closing'[Len(closing')]
              running == active_process # 0 /\ debugger[active_process].proc = "running"
          IN /\ c.event \in {"accepted", "ignored"}
             /\ c.event = "ignored" <=> (running /\ c.reply = "No")
             /\ c.event = "ignored" => debugger' = debugger /\ c.attempts = 0
             /\ (running /\ c.reply = "Yes") => c.attempts = 1 /\ c.event = "accepted"
             /\ ~running => c.attempts = 0 /\ debugger' = debugger
             /\ \A d \in DebugIds :
                   debugger'[d] # debugger[d] =>
                      /\ d = active_process
                      /\ debugger'[d].proc = "terminated"
                      /\ ~c.raised]_vars

\* a first close was refused with No while the debugger ran, a second one
\* was answered Yes, terminate() raised and the close was accepted
C23_Witness ==
    /\ Len(closing) = 2
    /\ closing[1].event = "ignored"
    /\ closing[2].reply = "Yes"
    /\ closing[2].raised
    /\ closing[2].event = "accepted"
    /\ active_process # 0
    /\ debugger[active_process].proc = "running"

\* C27 (as claimed): an install job whose pip process exits once its output
\* is consumed eventually signals completion: the job and the process never
\* stay blocked on each other.
C27_JobEventuallySignals == (pipes.pc = "reading") ~> (pipes.pc = "finished")

\* C29 (as claimed): when MainWindow initialization completes without the
\* application exiting, python_executable is set and names a python.exe that
\* was checked to exist.
C29_ExecutableSetAndChecked ==
    startup.pc = "done" => startup.python_executable # <<>> /\ startup.checked

====
